---------------------------- MODULE Spec2Model ----------------------------
(***************************************************************************)
(* Model of the fastener generators (FsFunctions/FSmakePin.py,             *)
(* FsFunctions/FSmakeSelfTappingScrew.py), the alias tables (FSAliases.py) *)
(* and the designation table of FastenersBillOfMaterials.py.               *)
(*                                                                         *)
(* Lengths are fixed-point integers in thousandths of a millimetre; the    *)
(* trigonometric constants are tabulated in thousandths.  Every call of    *)
(* the geometry kernel or of FSFaceMaker made by a generation call is      *)
(* appended, in program order, to that call's log ops[c].                  *)
(***************************************************************************)
EXTENDS Integers, Sequences, FiniteSets, TLC

VARIABLES
    fa,          \* fa[c]: the descriptor a generation call was given
    pc,          \* pc[c]: the position of call c in its generator
    gen,         \* gen[c]: the generator the dispatcher selected
    dims,        \* dims[c]: the locals resolved from the tables
    ops,         \* ops[c]: the kernel / face-maker operations performed
    result,      \* result[c]: what the call returned or raised
    FsData,      \* the dimension tables read by the generators
    table,       \* the table handed to FSAppendAliasesToTable
    tableBefore, \* the same table as it was when the call was made
    aliasCall,   \* the alias operation in progress and its results
    doc,         \* doc.Objects: the objects of the active document
    bomPc,       \* the position of FSMakeBomCommand.Activated
    idx,         \* number of fastener objects the counting loop has handled
    fastener_attributes, \* the attribute copy of the object handled last
    keys,        \* the designation key computed for each handled object
    bom_items,   \* designation key -> quantity counted so far
    pending,     \* the sorted keys that still have no row
    line,        \* the sheet line the next row is written to
    sheet,       \* the cells of the Fasteners_BOM sheet
    bomExc       \* the exception Activated ended with, "" when none

vars == <<fa, pc, gen, dims, ops, result, FsData, table, tableBefore, aliasCall,
          doc, bomPc, idx, fastener_attributes, keys, bom_items, pending, line,
          sheet, bomExc>>

genVars == <<fa, pc, gen, dims, ops, result, FsData>>
aliasVars == <<table, tableBefore, aliasCall>>
bomVars == <<doc, bomPc, idx, fastener_attributes, keys, bom_items, pending, line,
             sheet, bomExc>>

---------------------------------------------------------------------------
(* Bounds of the model.                                                    *)

\* calc_len ranges over 10 mm, 20 mm, ... MaxLenSteps * 10 mm
MaxLenSteps == 2

\* values stored in the table handed to FSAppendAliasesToTable: 1..MaxTableValue
MaxTableValue == 2

\* a document holds at most MaxObjects objects before the command runs
MaxObjects == 2

\* GetTotalObjectRepeats of an object ranges over 1..MaxRepeats
MaxRepeats == 2

---------------------------------------------------------------------------
(* Python string operations used by the generators.                        *)

Min(a, b) == IF a < b THEN a ELSE b

CharAt(s, i) == SubSeq(s, i, i)

\* s[:n]
Prefix(s, n) == SubSeq(s, 1, Min(n, Len(s)))

RECURSIVE LStrip(_, _)
LStrip(s, chars) ==
    IF Len(s) > 0 /\ CharAt(s, 1) \in chars
    THEN LStrip(SubSeq(s, 2, Len(s)), chars)
    ELSE s

RECURSIVE RStrip(_, _)
RStrip(s, chars) ==
    IF Len(s) > 0 /\ CharAt(s, Len(s)) \in chars
    THEN RStrip(SubSeq(s, 1, Len(s) - 1), chars)
    ELSE s

\* s.strip(chars): removes leading and trailing characters that are in chars
strip(s, chars) == RStrip(LStrip(s, chars), chars)

\* index of the first character of s at or after i that is (not) a blank
RECURSIVE SkipWhile(_, _, _)
SkipWhile(s, i, blank) ==
    IF i <= Len(s) /\ ((CharAt(s, i) = " ") = blank)
    THEN SkipWhile(s, i + 1, blank)
    ELSE i

\* s.split(): the list of maximal blank-free runs of s
RECURSIVE SplitFrom(_, _)
SplitFrom(s, i) ==
    LET b == SkipWhile(s, i, TRUE)
        e == SkipWhile(s, b, FALSE)
    IN  IF b > Len(s) THEN <<>>
        ELSE <<SubSeq(s, b, e - 1)>> \o SplitFrom(s, e)

split(s) == SplitFrom(s, 1)

Digits == {"0", "1", "2", "3", "4", "5", "6", "7", "8", "9"}

DigitVal(ch) ==
    CASE ch = "0" -> 0 [] ch = "1" -> 1 [] ch = "2" -> 2 [] ch = "3" -> 3
      [] ch = "4" -> 4 [] ch = "5" -> 5 [] ch = "6" -> 6 [] ch = "7" -> 7
      [] ch = "8" -> 8 [] ch = "9" -> 9

AllDigits(s) == \A i \in 1..Len(s) : CharAt(s, i) \in Digits

\* value of a digit string read as an integer
RECURSIVE IntOf(_)
IntOf(s) ==
    IF Len(s) = 0 THEN 0
    ELSE 10 * IntOf(SubSeq(s, 1, Len(s) - 1)) + DigitVal(CharAt(s, Len(s)))

\* value of a digit string read as a decimal fraction, in thousandths
FracOf(s) ==
    LET d(i) == IF i <= Len(s) THEN DigitVal(CharAt(s, i)) ELSE 0
    IN  100 * d(1) + 10 * d(2) + d(3)

DotAt(s) ==
    IF \E i \in 1..Len(s) : CharAt(s, i) = "."
    THEN CHOOSE i \in 1..Len(s) :
            CharAt(s, i) = "." /\ \A j \in 1..(i - 1) : CharAt(s, j) # "."
    ELSE 0

\* float(s) for the decimal literals the size keys hold: the value in
\* thousandths, or ValueError when s is not a decimal literal.
ValueError == -1

float(s) ==
    LET t == strip(s, {" "})
        p == DotAt(t)
        ip == IF p = 0 THEN t ELSE SubSeq(t, 1, p - 1)
        fp == IF p = 0 THEN "" ELSE SubSeq(t, p + 1, Len(t))
    IN  IF Len(ip) + Len(fp) > 0 /\ AllDigits(ip) /\ AllDigits(fp)
        THEN 1000 * IntOf(ip) + FracOf(fp)
        ELSE ValueError

---------------------------------------------------------------------------
(* Arithmetic of the generators, on thousandths.                           *)

\* math.sin(math.radians(a)), math.cos(math.radians(a)), in thousandths
sin_deg(a) ==
    CASE a = 0 -> 0 [] a = 15 -> 259 [] a = 30 -> 500 [] a = 45 -> 707
      [] a = 90 -> 1000 [] a = -45 -> -707 [] a = -90 -> -1000

cos_deg(a) ==
    CASE a = 0 -> 1000 [] a = 15 -> 966 [] a = 30 -> 866 [] a = 45 -> 707
      [] a = 90 -> 0 [] a = -45 -> 707 [] a = -90 -> 0

\* math.tan(math.radians(a2 / 2)), in thousandths; a2 is twice the angle
tan_half_deg(a2) == CASE a2 = 45 -> 414 [] a2 = 90 -> 1000

\* x * t and x / t for a factor t given in thousandths
MulK(x, t) == (x * t) \div 1000
DivK(x, t) == (x * 1000) \div t

\* screw_maker.sqrt2, in thousandths
sqrt2 == 1414

getAverage_lower(lower_limit, upper_limit) == lower_limit

getAverage(lower_limit, upper_limit) == (lower_limit + upper_limit) \div 2

---------------------------------------------------------------------------
(* The tables.                                                             *)

\* A dict literal: its items in insertion order, as <<key, value>> pairs.
DictHas(d, k) == \E i \in 1..Len(d) : d[i][1] = k
DictGet(d, k) == d[CHOOSE i \in 1..Len(d) : d[i][1] = k][2]
DictKeys(d) == [i \in 1..Len(d) |-> d[i][1]]

\* a table to reuse icons
FSIconAliases ==
    << <<"ISO299", "DIN508">>,
       <<"ISO7049-C", "GOST1144-4">>,
       <<"ISO7049-R", "GOST1144-4">> >>

FSTypeAliases_chained == << <<"ISO299", "DIN508">>, <<"DIN508", "GN505">> >>

\* a table to reuse similar type standards
FSTypeAliases == << <<"ISO299", "DIN508">> >>

fastener_designations ==
       ("4PWTI" :> "Tee nut Inserts for wood, {diameter}")
    @@ ("ASMEB18.2.1.1" :> "Square Head Bolts, ASME B18.2.1, {diameter} x {length}")
    @@ ("ASMEB18.2.1.6" :> "Hex Cap Screws, ASME B18.2.1, {diameter} x {length}")
    @@ ("ASMEB18.2.1.8" :> "Hex Flange Screws, ASME B18.2.1, {diameter} x {length}")
    @@ ("ASMEB18.2.2.1A" :> "Hex Machine Screw Nuts, ASME B18.2.2, {diameter}")
    @@ ("ASMEB18.2.2.1B" :> "Square Machine Screw Nuts, ASME B18.2.2, {diameter}")
    @@ ("ASMEB18.2.2.12" :> "Hex Flange Nuts, ASME B18.2.2, {diameter}")
    @@ ("ASMEB18.2.2.13" :> "Hex Coupling Nuts, ASME B18.2.2, {diameter}")
    @@ ("ASMEB18.2.2.2" :> "Square Nuts, ASME B18.2.2, {diameter}")
    @@ ("ASMEB18.2.2.4A" :> "Hex Nuts, ASME B18.2.2, {diameter}")
    @@ ("ASMEB18.2.2.4B" :> "Hex Jam Nuts, ASME B18.2.2, {diameter}")
    @@ ("ASMEB18.2.2.5" :> "Hex Slotted Nuts, ASME B18.2.2, {diameter}")
    @@ ("ASMEB18.21.1.12A" :> "Plain Washers, Narrow Series, ASME B18.21.1, {diameter}")
    @@ ("ASMEB18.21.1.12B" :> "Plain Washers, Regular Series, ASME B18.21.1, {diameter}")
    @@ ("ASMEB18.21.1.12C" :> "Plain Washers, Wide Series, ASME B18.21.1, {diameter}")
    @@ ("ASMEB18.3.1A" :> "Hexagon Socket Head Cap Screws, ASME B18.3, {diameter} x {length}")
    @@ ("ASMEB18.3.1G" :> "Hexagon Low Head Socket Cap Screws, ASME B18.3, {diameter} x {length}")
    @@ ("ASMEB18.3.2" :> "Hexagon Socket Flat Countersunk Head Cap Screws, ASME B18.3, {diameter} x {length}")
    @@ ("ASMEB18.3.3A" :> "Hexagon Socket Button Head Cap Screws, ASME B18.3, {diameter} x {length}")
    @@ ("ASMEB18.3.3B" :> "Hexagon Socket Flanged Button Head Cap Screws, ASME B18.3, {diameter} x {length}")
    @@ ("ASMEB18.3.4" :> "Hexagon Socket Head Shoulder Screws, ASME B18.3, {diameter} x {length}")
    @@ ("ASMEB18.3.5A" :> "Hexagon Socket Set Screws, Flat Point, ASME B18.3, {diameter} x {length}")
    @@ ("ASMEB18.3.5B" :> "Hexagon Socket Set Screws, Cone Point, ASME B18.3, {diameter} x {length}")
    @@ ("ASMEB18.3.5C" :> "Hexagon Socket Set Screws, Dog Point, ASME B18.3, {diameter} x {length}")
    @@ ("ASMEB18.3.5D" :> "Hexagon Socket Set Screws, Cup Point, ASME B18.3, {diameter} x {length}")
    @@ ("ASMEB18.5.2" :> "Round Head Square Neck Bolts,  ASME B18.5, {diameter} x {length}")
    @@ ("ASMEB18.6.1.2" :> "Slotted Flat Countersunk Head Wood Screws,  ASME B18.6.1, {diameter} x {length}")
    @@ ("ASMEB18.6.1.3" :> "Type 1 Cross Recessed Flat Countersunk Head Wood Screws,  ASME B18.6.1, {diameter} x {length}")
    @@ ("ASMEB18.6.1.4" :> "Slotted Oval Countersunk Head Wood Screws,  ASME B18.6.1, {diameter} x {length}")
    @@ ("ASMEB18.6.1.5" :> "Type 1 Cross Recessed Oval Countersunk Head Wood Screws,  ASME B18.6.1, {diameter} x {length}")
    @@ ("ASMEB18.6.3.10A" :> "Slotted Fillister Head Machine Screws,  ASME B18.6.3, {diameter} x {length}")
    @@ ("ASMEB18.6.3.1A" :> "Slotted Flat Countersunk Head Machine Screws,  ASME B18.6.3, {diameter} x {length}")
    @@ ("ASMEB18.6.3.10B" :> "Type 1 Cross Recessed Fillister Head Machine Screws,  ASME B18.6.3, {diameter} x {length}")
    @@ ("ASMEB18.6.3.1B" :> "Type 1 Cross Recessed Flat Countersunk Head Machine Screws,  ASME B18.6.3, {diameter} x {length}")
    @@ ("ASMEB18.6.3.12A" :> "Slotted Truss Head Machine Screws,  ASME B18.6.3, {diameter} x {length}")
    @@ ("ASMEB18.6.3.12C" :> "Type 1 Cross Recessed Truss Head Machine Screws,  ASME B18.6.3, {diameter} x {length}")
    @@ ("ASMEB18.6.3.16A" :> "Slotted Round Head Machine Screws,  ASME B18.6.3, {diameter} x {length}")
    @@ ("ASMEB18.6.3.16B" :> "Type 1 Cross Recessed Round Head Machine Screws,  ASME B18.6.3, {diameter} x {length}")
    @@ ("ASMEB18.6.3.4A" :> "Slotted Oval Countersunk Head Machine Screws,  ASME B18.6.3, {diameter} x {length}")
    @@ ("ASMEB18.6.3.4B" :> "Type 1 Cross Recessed Oval Countersunk Head Machine Screws,  ASME B18.6.3, {diameter} x {length}")
    @@ ("ASMEB18.6.3.9A" :> "Slotted Pan Head Machine Screws,  ASME B18.6.3, {diameter} x {length}")
    @@ ("ASMEB18.6.3.9B" :> "Type 1 Cross Recessed Pan Head Machine Screws,  ASME B18.6.3, {diameter} x {length}")
    @@ ("ASMEB18.6.9A" :> "ASME B18.6.9, {diameter} Type A Wing Nut")
    @@ ("DIN84" :> "Cheese head screw DIN 84 - {diameter} x {length}")
    @@ ("DIN96" :> "Wood screw DIN 96 - {diameter} x {length}")
    @@ ("DIN315" :> "Wing nut DIN 315 - {diameter}")
    @@ ("DIN464" :> "Knurled screw DIN 464 - {diameter} x {length}")
    @@ ("DIN465" :> "Knurled screw DIN 465 - {diameter} x {length}")
    @@ ("DIN653" :> "Knurled screw DIN 653 - {diameter} x {length}")
    @@ ("DIN471" :> "Retaining ring DIN 471 - {diameter}")
    @@ ("DIN472" :> "Retaining ring DIN 472 - {diameter}")
    @@ ("DIN478" :> "Square head bolt DIN 478 - {diameter} x {length}")
    @@ ("DIN508" :> "T-Slot Nut DIN 508 - {diameter}")
    @@ ("DIN557" :> "Square nut DIN 557 - {diameter}")
    @@ ("DIN562" :> "Square nut DIN 562 - {diameter}")
    @@ ("DIN571" :> "Wood screw DIN 571 - {diameter} x {length}")
    @@ ("DIN603" :> "Mushroom head square neck bolt  DIN 603 - {diameter} x {length}")
    @@ ("DIN917" :> "Cap nut DIN 917 - {diameter}")
    @@ ("DIN928" :> "Square weld nut DIN 928 - {diameter}")
    @@ ("DIN929" :> "Hexagon weld nut DIN 929 - {diameter}")
    @@ ("DIN933" :> "Hexagon head screw DIN 933 - {diameter} x {length}")
    @@ ("DIN934" :> "Hexagon nut DIN 934 - {diameter}")
    @@ ("DIN935" :> "Hexagon castle nut DIN 935 - {diameter}")
    @@ ("DIN961" :> "Hexagon head screw DIN 961 - {diameter} x {length}")
    @@ ("DIN967" :> "Pan head screw DIN 967 - {diameter} x {length} - H")
    @@ ("DIN985" :> "Prevailing torque type hexagon thin nut DIN 985 - {diameter}")
    @@ ("DIN1143" :> "Nail DIN 1143 - {diameter} - L")
    @@ ("DIN1144-A" :> "Nail A {diameter} DIN 1144")
    @@ ("DIN1151-A" :> "Nail A {diameter} DIN 1151")
    @@ ("DIN1151-B" :> "Nail B {diameter} DIN 1151")
    @@ ("DIN1152" :> "Nail {diameter} DIN 1152")
    @@ ("DIN1160-A" :> "Nail A {diameter} DIN 1160")
    @@ ("DIN1160-B" :> "Nail B {diameter} DIN 1160")
    @@ ("DIN1587" :> "Cap nut - DIN 1587 - {diameter}")
    @@ ("DIN6319C" :> "Spherical washer - DIN 6319 - C - {diameter}")
    @@ ("DIN6319D" :> "Conical seat - DIN 6319 - D - {diameter}")
    @@ ("DIN6319G" :> "Conical seat - DIN 6319 - G - {diameter}")
    @@ ("DIN6330" :> "Hexagon nut DIN 6330 - {diameter}")
    @@ ("DIN6331" :> "Hexagon nut with flange DIN 6331 - {diameter}")
    @@ ("DIN6334" :> "Hexagon nut DIN 6334 - {diameter}")
    @@ ("DIN6340" :> "Washer DIN 6340 - {diameter}")
    @@ ("DIN6799" :> "Retaining ring DIN 6799 - {diameter}")
    @@ ("DIN6912" :> "Hexagon socket head cap screw DIN 6912 - {diameter} x {length}")
    @@ ("DIN7967" :> "Self locking counter nut DIN 7967 - {diameter}")
    @@ ("DIN7984" :> "Hexagon socket head cap screw DIN 7984 - {diameter} x {length}")
    @@ ("DIN7996" :> "Wood screw DIN 7996 - {diameter} x {length}")
    @@ ("EN1661" :> "Hexagon nut with flange EN 1661 - {diameter}")
    @@ ("EN1662" :> "Hexagon head screw with flange EN 1662 - {diameter}")
    @@ ("EN1665" :> "Hexagon head screw with flange EN 1665 - {diameter}")
    @@ ("GN505" :> "T-Slot Nut GN 505 - {diameter} x {slotWidth}")
    @@ ("GN505.4" :> "T-Slot Bolt GN 505.4 - {diameter} x {slotWidth} x {length}")
    @@ ("GN506" :> "T-Slot Nut GN 506 - {diameter} x {slotWidth}")
    @@ ("GN507" :> "T-Slot Nut GN 507 - {diameter} x {slotWidth}")
    @@ ("GOST1144-1" :> "Wood screw GOST 1144-1 - {diameter} x {length}")
    @@ ("GOST1144-2" :> "Wood screw GOST 1144-2 - {diameter} x {length}")
    @@ ("GOST1144-3" :> "Wood screw GOST 1144-3 - {diameter} x {length}")
    @@ ("GOST1144-4" :> "Wood screw GOST 1144-4 - {diameter} x {length}")
    @@ ("GOST11860-1" :> "Cap nut - GOST 11860-1 - {diameter}")
    @@ ("ISO299" :> "T-Slot Nut ISO 299 - {diameter} x {slotWidth}")
    @@ ("ISO1207" :> "Cheese head screw ISO 1207 - {diameter} x {length}")
    @@ ("ISO1234" :> "Split Pin ISO 1234 - {diameter} x {length}")
    @@ ("ISO1580" :> "Pan head screw ISO 1580 - {diameter} x {length}")
    @@ ("ISO2009" :> "Countersunk flat head screw ISO 2009 - {diameter} x {length}")
    @@ ("ISO2010" :> "Countersunk raised head screw ISO 2010 - {diameter} x {length}")
    @@ ("ISO2338" :> "Parallel pin ISO 2338 - {diameter} x {length}")
    @@ ("ISO2339" :> "Taper pin ISO 2339 - {diameter} x {length}")
    @@ ("ISO2340A" :> "Clevis Pin ISO 2340 - A - {diameter} x {length}")
    @@ ("ISO2340B" :> "Clevis Pin ISO 2340 - B - {diameter} x {length}")
    @@ ("ISO2341A" :> "Clevis Pin ISO 2341 - A - {diameter} x {length}")
    @@ ("ISO2341B" :> "Clevis Pin ISO 2341 - B - {diameter} x {length}")
    @@ ("ISO2342" :> "Headless screw ISO 2342 - {diameter} x {length}")
    @@ ("ISO2936" :> "Socket screw key ISO 2936 - {diameter}")
    @@ ("ISO4014" :> "Hexagon head bolt ISO 4014 - {diameter} x {length}")
    @@ ("ISO4015" :> "Hexagon head bolt ISO 4015 - {diameter} x {length}")
    @@ ("ISO4016" :> "Hexagon head bolt ISO 4016 - {diameter} x {length}")
    @@ ("ISO4017" :> "Hexagon head screw ISO 4017 - {diameter} x {length}")
    @@ ("ISO4018" :> "Hexagon head screw ISO 4018 - {diameter} x {length}")
    @@ ("ISO4026" :> "Hexagon socket set screw ISO 4026 - {diameter} x {length}")
    @@ ("ISO4027" :> "Hexagon socket set screw ISO 4027 - {diameter} x {length}")
    @@ ("ISO4028" :> "Hexagon socket set screw ISO 4028 - {diameter} x {length}")
    @@ ("ISO4029" :> "Hexagon socket set screw ISO 4029 - {diameter} x {length}")
    @@ ("ISO4032" :> "Hexagon regular nut ISO 4032 - {diameter}")
    @@ ("ISO4033" :> "Hexagon high nut ISO 4033 - {diameter}")
    @@ ("ISO4034" :> "Hexagon regular nut ISO 4034 - {diameter}")
    @@ ("ISO4035" :> "Hexagon thin nut ISO 4035 - {diameter}")
    @@ ("ISO4161" :> "Hexagon nut with flange ISO 4161 - {diameter}")
    @@ ("ISO4162" :> "Hexagon nut with flange ISO 4162 - {diameter}")
    @@ ("ISO4762" :> "Hexagon socket head cap screw ISO 4762 - {diameter} x {length}")
    @@ ("ISO4766" :> "Set Screw ISO 4766 - {diameter} x {length}")
    @@ ("ISO7040" :> "Prevailing torque type hexagon regular nut ISO 7040 - {diameter}")
    @@ ("ISO7041" :> "Prevailing torque type hexagon nut ISO 7041 - {diameter}")
    @@ ("ISO7043" :> "Prevailing torque type hexagon nut with flange ISO 7043 - {diameter}")
    @@ ("ISO7044" :> "Prevailing torque type hexagon nut with flange ISO 7044 - {diameter}")
    @@ ("ISO7045" :> "Pan head screw ISO 7045 - {diameter} x {length} - H")
    @@ ("ISO7046" :> "Countersunk flat head screw ISO 7046-1 - {diameter} x {length} - H")
    @@ ("ISO7047" :> "Countersunk raised head screw ISO 7047 - {diameter} x {length} - H")
    @@ ("ISO7048" :> "Cheese head screw ISO 7048 - {diameter} x {length} - H")
    @@ ("ISO7049-C" :> "Tapping screw ISO 7049 - {diameter} x {length} - C - H")
    @@ ("ISO7049-F" :> "Tapping screw ISO 7049 - {diameter} x {length} - F - H")
    @@ ("ISO7049-R" :> "Tapping screw ISO 7049 - {diameter} x {length} - R - H")
    @@ ("ISO7089" :> "Washer ISO 7089 - {diameter}")
    @@ ("ISO7090" :> "Washer ISO 7090 - {diameter}")
    @@ ("ISO7092" :> "Washer ISO 7092 - {diameter}")
    @@ ("ISO7093-1" :> "Washer ISO 7093-1 - {diameter}")
    @@ ("ISO7094" :> "Washer ISO 7094 - {diameter}")
    @@ ("ISO7379" :> "Hexagon socket head shoulder screw ISO 7379 - {diameter} x {length}")
    @@ ("ISO7380-1" :> "Hexagon socket button head screw ISO 7380-1 - {diameter} x {length}")
    @@ ("ISO7380-2" :> "Hexagon socket button head screw ISO 7380-2 - {diameter} x {length}")
    @@ ("ISO7434" :> "Set screw ISO 7434 - {diameter} x {length}")
    @@ ("ISO7435" :> "Set screw ISO 7435 - {diameter} x {length}")
    @@ ("ISO7436" :> "Set screw ISO 7436 - {diameter} x {length}")
    @@ ("ISO7719" :> "Prevailing torque type hexagon regular nut ISO 7719 - {diameter}")
    @@ ("ISO7720" :> "Prevailing torque type hexagon nut ISO 7720 - {diameter}")
    @@ ("ISO8673" :> "Hexagon regular nut ISO 8673 - {diameter}")
    @@ ("ISO8674" :> "Hexagon high nut ISO 8674 - {diameter}")
    @@ ("ISO8675" :> "Hexagon thin nut ISO 8675 - {diameter}")
    @@ ("ISO8676" :> "Hexagon head screw ISO 8676 - {diameter} x {length}")
    @@ ("ISO8733" :> "Parallel pin ISO 8733 - {diameter} x {length}")
    @@ ("ISO8734" :> "Parallel pin ISO 8734 - {diameter} x {length}")
    @@ ("ISO8735" :> "Parallel pin ISO 8735 - {diameter} x {length}")
    @@ ("ISO8736" :> "Taper pin ISO 8736 - {diameter} x {length}")
    @@ ("ISO8737" :> "Taper pin ISO 8737 - {diameter} x {length}")
    @@ ("ISO8738" :> "Washer ISO 8738 - {diameter}")
    @@ ("ISO8739" :> "Grooved pin ISO 8739 - {diameter} x {length}")
    @@ ("ISO8740" :> "Grooved pin ISO 8740 - {diameter} x {length}")
    @@ ("ISO8741" :> "Grooved pin ISO 8741 - {diameter} x {length}")
    @@ ("ISO8742" :> "Grooved pin ISO 8742 - {diameter} x {length}")
    @@ ("ISO8743" :> "Grooved pin ISO 8743 - {diameter} x {length}")
    @@ ("ISO8744" :> "Grooved pin ISO 8744 - {diameter} x {length}")
    @@ ("ISO8745" :> "Grooved pin ISO 8745 - {diameter} x {length}")
    @@ ("ISO8746" :> "Grooved pin ISO 8746 - {diameter} x {length}")
    @@ ("ISO8747" :> "Grooved pin ISO 8747 - {diameter} x {length}")
    @@ ("ISO8748" :> "Spring pin ISO 8748 - {diameter} x {length}")
    @@ ("ISO8750" :> "Spring pin ISO 8750 - {diameter} x {length}")
    @@ ("ISO8751" :> "Spring pin ISO 8751 - {diameter} x {length}")
    @@ ("ISO8752" :> "Spring pin ISO 8752 - {diameter} x {length}")
    @@ ("ISO8765" :> "Hexagon head bolt ISO 8765 - {diameter} x {length}")
    @@ ("ISO10511" :> "Prevailing torque type hexagon thin nut ISO 10511 - {diameter}")
    @@ ("ISO10512" :> "Prevailing torque type hexagon regular nut ISO 10512 - {diameter}")
    @@ ("ISO10513" :> "Prevailing torque type hexagon high nut ISO 10513 - {diameter}")
    @@ ("ISO10642" :> "Hexagon socket countersunk head screw ISO 10642 - {diameter} x {length}")
    @@ ("ISO10663" :> "Hexagon nut with flange ISO 10663 - {diameter}")
    @@ ("ISO12125" :> "Prevailing torque type hexagon nut with flange ISO 12125 - {diameter}")
    @@ ("ISO12126" :> "Prevailing torque type hexagon nut with flange ISO 12126 - {diameter}")
    @@ ("ISO13337" :> "Spring pin ISO 13337 - {diameter} x {length}")
    @@ ("ISO14579" :> "Hexalobular socket head cap screw ISO 14579 - {diameter} x {length}")
    @@ ("ISO14580" :> "Hexalobular socket cheese head screw ISO 14580 - {diameter} x {length}")
    @@ ("ISO14582" :> "Countersunk head screw ISO 14582 - {diameter} x {length}")
    @@ ("ISO14583" :> "Hexalobular socket pan head screw ISO 14583 - {diameter} x {length}")
    @@ ("ISO14584" :> "Hexalobular socket raised countersunk head screw ISO 14584 - {diameter} x {length}")
    @@ ("ISO15071" :> "Hexagon bolt with flange ISO 15071 - {diameter}")
    @@ ("ISO15072" :> "Hexagon bolt with flange ISO 15072 - {diameter}")
    @@ ("ISO21670" :> "Weld nut ISO 21670 - {diameter}")
    @@ ("IUTHeatInsert" :> "IUT[A/B/C] Heat staking insert - {diameter}")
    @@ ("NFE27-619" :> "Solid metal finishing washers NFE27-619 - {diameter}")
    @@ ("PCBSpacer" :> "Wurth WA-SSTII PCB Spacer - {diameter} x {length}")
    @@ ("PCBStandoff" :> "Wurth WA-SSTIII PCB Standoff - {diameter} x {length}")
    @@ ("PEMPressNut" :> "PEM self clinching nut - {diameter} x {tcode}")
    @@ ("PEMStandoff" :> "PEM self clinching standoff - {diameter} x {length}")
    @@ ("PEMStud" :> "PEM self clinching stud - {diameter} x {length}")
    @@ ("SAEJ483a1" :> "Low Crown Acorn Hex Nuts, SAEJ483A, {diameter}")
    @@ ("SAEJ483a2" :> "High Crown Acorn Hex Nuts, SAEJ483A, {diameter}")
    @@ ("ThreadedRod" :> "Threaded rod DIN 975 - {diameter} x {length}")
    @@ ("ThreadedRodInch" :> "UNC Threaded Rod, {diameter} x {length}")

\* Rows of the dimension tables, in thousandths of a millimetre.
\*   ISO2338def: c           ISO2339def: a        ISO2340def: dl, c, le
\*   ISO2341-Adef: dk, dl, c, e, k, le, r
\*   iso1478def: P, d1_max, d1_min, d2_max, d2_min, d3_max, d3_min, c, rR,
\*               yC, yF, yR, number
\*   ISO7049def (the rows handed over as fa.dimTable):
\*               P, dk_max, dk_min, k_max, k_min, r, a, PH, m, h_max, h_min
FsDataInit ==
    [t \in {"ISO2338def", "ISO2339def", "ISO2340def", "ISO2341-Adef",
            "iso1478def", "ISO7049def"} |->
        CASE t = "ISO2338def" ->
                ("3 mm" :> <<500>>) @@ ("4 mm" :> <<630>>)
          [] t = "ISO2339def" ->
                ("3 mm" :> <<400>>) @@ ("4 mm" :> <<500>>)
          [] t = "ISO2340def" ->
                ("3 mm" :> <<800, 1000, 1600>>)
                    @@ ("4 mm" :> <<1000, 1000, 2200>>)
          [] t = "ISO2341-Adef" ->
                ("3 mm" :> <<5000, 800, 1000, 500, 1000, 1600, 600>>)
                    @@ ("4 mm" :> <<6000, 1000, 1000, 500, 1000, 2200, 600>>)
          [] t = "iso1478def" ->
                ("ST 2.2" :> <<800, 2240, 2100, 1630, 1520, 1470, 1370, 100,
                               400, 2000, 1600, 1800, 2>>)
                    @@ ("ST 3.5" :> <<1300, 3530, 3350, 2640, 2510, 2460, 2330,
                                      100, 500, 3200, 2700, 2900, 6>>)
          [] t = "ISO7049def" ->
                ("ST 2.2" :> <<800, 4000, 3700, 1600, 1400, 100, 800, 0, 1900,
                               1200, 850>>)
                    @@ ("ST 3.5" :> <<1300, 7000, 6640, 2600, 2350, 100, 1300,
                                      2, 3900, 1900, 1400>>)]

\* the base types a caller may hand over
BaseTypes ==
    {"ISO2338", "ISO2339", "ISO2340", "ISO2341-A", "ISO2341-B", "ISO2341-X",
     "ISO7049-C", "ISO7049-F", "ISO7049-R", "ISO7049-X", "ISO9999"}

\* the size keys a caller may hand over
DiamStrs == {"3 mm", "4 mm", "5 mm", "ST 2.2", "ST 3.5", "ST 9.9", "ST"}

Lens == {10000 * k : k \in 1..MaxLenSteps}

EntryPoints == {"makePin", "makeSelfTappingScrew"}

Descriptors ==
    [entry : EntryPoints, baseType : BaseTypes, calc_diam : DiamStrs,
     calc_len : Lens, thread : BOOLEAN,
     dimTable : {FsDataInit["ISO7049def"][d] :
                    d \in DOMAIN FsDataInit["ISO7049def"]}]

Calls == {"a", "b"}

---------------------------------------------------------------------------
(* The operations a call logs.                                             *)

Op(name, args) == [op |-> name, a |-> args]

AddPoint(x, z) == Op("AddPoint", <<x, z>>)
AddBSpline(x1, z1, x2, z2) == Op("AddBSpline", <<x1, z1, x2, z2>>)
AddArc2(xc, zc, angle) == Op("AddArc2", <<xc, zc, angle>>)

\* FSFaceMaker.AddArc2: the centre is given relative to the last point and
\* the arc turns the last point about it by the angle; the point it ends at.
ArcEnd(last, xc, zc, angle) ==
    LET cx == last[1] + xc
        cz == last[2] + zc
        vx == 0 - xc
        vz == 0 - zc
    IN  << cx + (vx * cos_deg(angle) - vz * sin_deg(angle)) \div 1000,
           cz + (vx * sin_deg(angle) + vz * cos_deg(angle)) \div 1000 >>

\* the point the face maker stands at after an operation
EndPoint(last, o) ==
    CASE o.op = "AddPoint" -> <<o.a[1], o.a[2]>>
      [] o.op = "AddBSpline" -> <<o.a[3], o.a[4]>>
      [] o.op = "AddArc2" -> ArcEnd(last, o.a[1], o.a[2], o.a[3])
      [] OTHER -> last

\* the profile operations of a log: those made on the face maker
IsSegment(o) == o.op \in {"AddPoint", "AddBSpline", "AddArc2"}

Segments(log) == SelectSeq(log, IsSegment)

RECURSIVE LastPoint(_)
LastPoint(segs) ==
    IF Len(segs) = 0 THEN <<0, 0>>
    ELSE EndPoint(LastPoint(SubSeq(segs, 1, Len(segs) - 1)), segs[Len(segs)])

---------------------------------------------------------------------------
(* FSmakePin.py                                                            *)

\* makePin: the generator the base type is dispatched to
makePin(baseType) ==
    CASE baseType = "ISO2338" -> "makeDowelPin"
      [] baseType = "ISO2339" -> "makeTaperPin"
      [] baseType = "ISO2340" -> "makeClevisPinWithoutHead"
      [] Prefix(baseType, 7) = "ISO2341" -> "makeClevisPinWithHead"
      [] OTHER -> "NotImplementedError"

Raise(exc, msg) == [kind |-> "error", exc |-> exc, msg |-> msg]
Solid == [kind |-> "solid", exc |-> "", msg |-> ""]
NoResult == [kind |-> "none", exc |-> "", msg |-> ""]

Resolved(d) == [exc |-> "", msg |-> "", d |-> d]
Failed(exc, msg) == [exc |-> exc, msg |-> msg, d |-> <<>>]

\* l = fa.calc_len; dia = float(fa.calc_diam.strip(" mm"));
\* row = FsData[tname][fa.calc_diam]
PinDims(f, data, tname) ==
    LET dia == float(strip(f.calc_diam, {" ", "m"}))
    IN  IF dia = ValueError
        THEN Failed("ValueError", f.calc_diam)
        ELSE IF f.calc_diam \notin DOMAIN data[tname]
        THEN Failed("KeyError", f.calc_diam)
        ELSE Resolved([l |-> f.calc_len, dia |-> dia,
                       row |-> data[tname][f.calc_diam]])

makeClevisPinWithoutHead_dims(f, data) == PinDims(f, data, "ISO2340def")
makeClevisPinWithHead_dims(f, data) == PinDims(f, data, "ISO2341-Adef")
makeDowelPin_dims(f, data) == PinDims(f, data, "ISO2338def")
makeTaperPin_dims(f, data) == PinDims(f, data, "ISO2339def")

makeCylindricBody_lopsided(l, dia, c, alfa) ==
    << Op("FSFaceMaker", <<>>),
       AddPoint(0, 0),
       AddPoint(dia \div 2 - MulK(c, sin_deg(alfa)), 0),
       AddPoint(dia \div 2, 0 - c),
       AddPoint(dia \div 2, 0 - l - c),
       AddPoint(dia \div 2 - MulK(c, sin_deg(alfa)), 0 - l),
       AddPoint(0, 0 - l) >>

\* makeCylindricBody: the face maker and the points of the chamfered cylinder
makeCylindricBody(l, dia, c, alfa) ==
    << Op("FSFaceMaker", <<>>),
       AddPoint(0, 0),
       AddPoint(dia \div 2 - MulK(c, sin_deg(alfa)), 0),
       AddPoint(dia \div 2, 0 - c),
       AddPoint(dia \div 2, 0 - l + c),
       AddPoint(dia \div 2 - MulK(c, sin_deg(alfa)), 0 - l),
       AddPoint(0, 0 - l) >>

makeDowelPin_profile(d) == makeCylindricBody(d.l, d.dia, d.row[1], 15)

makeClevisPinWithoutHead_profile(d) ==
    makeCylindricBody(d.l, d.dia, d.row[2], 30)

makeClevisPinWithHead_profile_arc(f, d) ==
    LET l == d.l
        dia == d.dia
        dk == d.row[1]
        c == d.row[3]
        e == d.row[4]
        k == d.row[5]
        r == d.row[7]
    IN  << Op("FSFaceMaker", <<>>),
           AddPoint(0, k),
           AddPoint(dk \div 2 - DivK(e, sqrt2), k),
           AddPoint(dk \div 2, k - e),
           AddPoint(dk \div 2, 0),
           AddPoint(dia \div 2 + r, 0),
           IF f.thread
           THEN AddBSpline(dia \div 2, 0, dia \div 2, 0 - r)
           ELSE AddArc2(0, 0 - r, 90),
           AddPoint(dia \div 2, 0 - l + c),
           AddPoint(dia \div 2 - c \div 2, 0 - l),
           AddPoint(0, 0 - l) >>

makeClevisPinWithHead_profile(f, d) ==
    LET l == d.l
        dia == d.dia
        dk == d.row[1]
        c == d.row[3]
        e == d.row[4]
        k == d.row[5]
        r == d.row[7]
    IN  << Op("FSFaceMaker", <<>>),
           AddPoint(0, k),
           AddPoint(dk \div 2 - DivK(e, sqrt2), k),
           AddPoint(dk \div 2, k - e),
           AddPoint(dk \div 2, 0),
           AddPoint(dia \div 2 + r, 0),
           AddBSpline(dia \div 2, 0, dia \div 2, 0 - r),
           AddPoint(dia \div 2, 0 - l + c),
           AddPoint(dia \div 2 - c \div 2, 0 - l),
           AddPoint(0, 0 - l) >>

makeTaperPin_profile_byLength(d) ==
    LET l == d.l
        dia == d.dia
        a == d.row[1]
        D == dia + l \div 50
    IN  << Op("FSFaceMaker", <<>>),
           AddPoint(0, 0),
           AddBSpline(dia \div 2, 0, dia \div 2, 0 - a),
           AddPoint(D \div 2, 0 - l + a),
           AddBSpline(D \div 2, 0 - l, 0, 0 - l) >>

makeTaperPin_profile(d) ==
    LET l == d.l
        dia == d.dia
        a == d.row[1]
        D == dia + dia \div 50
    IN  << Op("FSFaceMaker", <<>>),
           AddPoint(0, 0),
           AddBSpline(dia \div 2, 0, dia \div 2, 0 - a),
           AddPoint(D \div 2, 0 - l + a),
           AddBSpline(D \div 2, 0 - l, 0, 0 - l) >>

RECURSIVE makeTraversalHoles_offcentre(_, _, _)
makeTraversalHoles_offcentre(d, h, les) ==
    IF Len(les) = 0 THEN <<>>
    ELSE << Op("makeCylinder", <<d \div 2, h>>),
            Op("Placement", <<0, 0, les[1], 1, 0, 0, 90>>),
            Op("cut", <<>>) >>
         \o makeTraversalHoles_offcentre(d, h, Tail(les))

\* makeTraversalHoles: per entry of les a cylinder, its placement and a cut
RECURSIVE makeTraversalHoles(_, _, _)
makeTraversalHoles(d, h, les) ==
    IF Len(les) = 0 THEN <<>>
    ELSE << Op("makeCylinder", <<d \div 2, h>>),
            Op("Placement", <<0, h \div 2, les[1], 1, 0, 0, 90>>),
            Op("cut", <<>>) >>
         \o makeTraversalHoles(d, h, Tail(les))

\* FreeCAD.Rotation(FreeCAD.Vector(1, 0, 0), angle) applied to a vector
RotateX(angle, v) ==
    << v[1],
       (v[2] * cos_deg(angle) - v[3] * sin_deg(angle)) \div 1000,
       (v[2] * sin_deg(angle) + v[3] * cos_deg(angle)) \div 1000 >>

\* Part.makeCylinder(r, h) stands on the origin along +z; under the
\* placement it runs from the placement's position along the turned z axis.
HoleStart(place) == <<place.a[1], place.a[2], place.a[3]>>
HoleAxis(cyl, place) == RotateX(place.a[7], <<0, 0, cyl.a[2]>>)

\* the offsets makeClevisPinWithoutHead passes to makeTraversalHoles
makeClevisPinWithoutHead_holes(d) ==
    makeTraversalHoles(d.row[1], d.dia, <<0 - d.row[3], 0 - d.l + d.row[3]>>)

\* the offsets makeClevisPinWithHead passes, for ISO2341-B only
makeClevisPinWithHead_holes(f, d) ==
    IF f.baseType = "ISO2341-B"
    THEN makeTraversalHoles(d.row[2], d.dia, <<0 - d.l + d.row[6]>>)
    ELSE <<>>

---------------------------------------------------------------------------
(* FSmakeSelfTappingScrew.py                                               *)

\* makeSelfTappingScrew: the generator the base type is dispatched to
makeSelfTappingScrew(baseType) ==
    IF Prefix(baseType, 7) = "ISO7049" THEN "makeISO7049"
    ELSE "NotImplementedError"

full_length == TRUE

\* makeISO7049, up to the construction of the face maker: the locals
makeISO7049_dims(f, data) ==
    LET tokens == split(f.calc_diam)
        dia == IF Len(tokens) < 2 THEN ValueError ELSE float(tokens[2])
    IN  IF Len(tokens) < 2
        THEN Failed("IndexError", f.calc_diam)
        ELSE IF dia = ValueError
        THEN Failed("ValueError", tokens[2])
        ELSE IF f.calc_diam \notin DOMAIN data["iso1478def"]
        THEN Failed("KeyError", f.calc_diam)
        ELSE
        LET t == data["iso1478def"][f.calc_diam]
            P == t[1]
            d2 == getAverage(t[5], t[4])
            d3 == getAverage(t[7], t[6])
            rR == t[9]
            D == getAverage(f.dimTable[3], f.dimTable[2])
            K == getAverage(f.dimTable[5], f.dimTable[4])
            r == f.dimTable[6]
            PH == f.dimTable[8]
            m == f.dimTable[9]
            h == getAverage(f.dimTable[11], f.dimTable[10])
            l == f.calc_len
            b == l
            ri == d2 \div 2
            ro == dia \div 2
            sr == IF f.thread THEN ri ELSE ro
            slope_length == ro - ri
            tip_length == IF f.baseType = "ISO7049-F"
                          THEN sr - d3 \div 2
                          ELSE DivK(sr, tan_half_deg(45))
        IN  Resolved([SType |-> f.baseType, l |-> l, dia |-> dia, P |-> P,
                      d2 |-> d2, d3 |-> d3, rR |-> rR, D |-> D, K |-> K,
                      r |-> r, PH |-> PH, m |-> m, h |-> h, b |-> b,
                      ri |-> ri, ro |-> ro, sr |-> sr,
                      slope_length |-> slope_length,
                      tip_length |-> tip_length])

makeISO7049_headShank_byVariant(f, d) ==
    << Op("FSFaceMaker", <<>>),
       AddPoint(0, d.K),
       AddBSpline(d.D \div 2, d.K, d.D \div 2, 0),
       AddPoint(d.ro + d.r, 0),
       IF f.thread /\ d.SType # "ISO7049-F"
       THEN AddBSpline(d.ro, 0, d.sr, 0 - d.slope_length)
       ELSE AddArc2(0, 0 - d.r, 90) >>

\* 1) screw head, 2) rounding under the head, 3) cylindrical part
makeISO7049_headShank(f, d) ==
    << Op("FSFaceMaker", <<>>),
       AddPoint(0, d.K),
       AddBSpline(d.D \div 2, d.K, d.D \div 2, 0),
       AddPoint(d.ro + d.r, 0),
       IF f.thread /\ full_length
       THEN AddBSpline(d.ro, 0, d.sr, 0 - d.slope_length)
       ELSE AddArc2(0, 0 - d.r, 90) >>
    \o (IF ~full_length
        THEN (IF f.thread
              THEN <<AddPoint(d.ro, 0 - d.l + d.b + d.slope_length)>>
              ELSE <<>>)
             \o <<AddPoint(d.sr, 0 - d.l + d.b)>>
        ELSE <<>>)

makeISO7049_tip_open(f, d) ==
    (IF d.SType = "ISO7049-C"
     THEN << AddPoint(d.sr, 0 - d.l + d.tip_length),
             AddPoint(0, 0 - d.l) >>
     ELSE <<>>)
    \o
    (IF d.SType = "ISO7049-F"
     THEN << AddPoint(d.sr, 0 - d.l + d.tip_length),
             AddPoint(d.d3 \div 2, 0 - d.l) >>
     ELSE <<>>)
    \o
    (IF d.SType = "ISO7049-R"
     THEN << AddPoint(d.sr, 0 - d.l + d.tip_length),
             AddPoint(MulK(d.rR, cos_deg(45)), d.rR - d.l),
             AddArc2(0 - MulK(d.rR, cos_deg(45)), MulK(d.rR, sin_deg(45)),
                     0 - 45) >>
     ELSE <<>>)

\* tip shape
makeISO7049_tip(f, d) ==
    (IF d.SType = "ISO7049-C"
     THEN << AddPoint(d.sr, 0 - d.l + d.tip_length),
             AddPoint(0, 0 - d.l) >>
     ELSE <<>>)
    \o
    (IF d.SType = "ISO7049-F"
     THEN << AddPoint(d.sr, 0 - d.l + d.tip_length),
             AddPoint(d.d3 \div 2, 0 - d.l),
             AddPoint(0, 0 - d.l) >>
     ELSE <<>>)
    \o
    (IF d.SType = "ISO7049-R"
     THEN << AddPoint(d.sr, 0 - d.l + d.tip_length),
             AddPoint(MulK(d.rR, cos_deg(45)), d.rR - d.l),
             AddArc2(0 - MulK(d.rR, cos_deg(45)), MulK(d.rR, sin_deg(45)),
                     0 - 45) >>
     ELSE <<>>)

makeISO7049_profile(f, d) ==
    makeISO7049_headShank(f, d) \o makeISO7049_tip(f, d)

\* make slot in screw head
makeISO7049_recess(d) ==
    << Op("makeHCrossRecess", <<d.PH, d.m>>),
       Op("translate", <<0, 0, d.h>>),
       Op("cut", <<>>) >>

\* make thread: the call of makeDin7998Thread, if the variant makes one.
\* The last argument is omitTipThread (FALSE where the call leaves it out).
makeISO7049_thread(d) ==
    LET zs == 0 - d.l + d.b + d.slope_length
        zt == 0 - d.l + d.tip_length
    IN  (IF d.SType = "ISO7049-C"
         THEN <<Op("makeDin7998Thread",
                   <<zs, zt, 0 - d.l, d.ri, d.ro, d.P, FALSE>>)>>
         ELSE <<>>)
        \o
        (IF d.SType = "ISO7049-F"
         THEN <<Op("makeDin7998Thread",
                   <<zs, zt, 0 - d.l, d.ri, d.ro, d.P, TRUE>>)>>
         ELSE <<>>)
        \o
        (IF d.SType = "ISO7049-R"
         THEN <<Op("makeDin7998Thread",
                   <<zs, zt, 0 - d.l + d.rR, d.ri, d.ro, d.P, FALSE>>)>>
         ELSE <<>>)

---------------------------------------------------------------------------
(* A generation call, step by step.                                        *)

GenDims(g, f, data) ==
    CASE g = "makeDowelPin" -> makeDowelPin_dims(f, data)
      [] g = "makeTaperPin" -> makeTaperPin_dims(f, data)
      [] g = "makeClevisPinWithoutHead" -> makeClevisPinWithoutHead_dims(f, data)
      [] g = "makeClevisPinWithHead" -> makeClevisPinWithHead_dims(f, data)
      [] g = "makeISO7049" -> makeISO7049_dims(f, data)

GenProfile(g, f, d) ==
    CASE g = "makeDowelPin" -> makeDowelPin_profile(d)
      [] g = "makeTaperPin" -> makeTaperPin_profile(d)
      [] g = "makeClevisPinWithoutHead" -> makeClevisPinWithoutHead_profile(d)
      [] g = "makeClevisPinWithHead" -> makeClevisPinWithHead_profile(f, d)
      [] g = "makeISO7049" -> makeISO7049_profile(f, d)

NoDims == <<>>

Started(c, g) ==
    IF g = "NotImplementedError"
    THEN /\ result' = [result EXCEPT ![c] =
                Raise("NotImplementedError",
                      "Unknown fastener type: " \o fa[c].baseType)]
         /\ pc' = [pc EXCEPT ![c] = "done"]
         /\ gen' = gen
    ELSE /\ gen' = [gen EXCEPT ![c] = g]
         /\ pc' = [pc EXCEPT ![c] = "dims"]
         /\ result' = result

\* makePin(self, fa)
CallMakePin(c) ==
    /\ pc[c] = "call"
    /\ fa[c].entry = "makePin"
    /\ Started(c, makePin(fa[c].baseType))
    /\ UNCHANGED <<fa, dims, ops, FsData, aliasVars, bomVars>>

\* makeSelfTappingScrew(self, fa)
CallMakeSelfTappingScrew(c) ==
    /\ pc[c] = "call"
    /\ fa[c].entry = "makeSelfTappingScrew"
    /\ Started(c, makeSelfTappingScrew(fa[c].baseType))
    /\ UNCHANGED <<fa, dims, ops, FsData, aliasVars, bomVars>>

ResolveDims_faceFirst(c) ==
    /\ pc[c] = "dims"
    /\ ops' = [ops EXCEPT ![c] = @ \o <<Op("FSFaceMaker", <<>>)>>]
    /\ LET r == GenDims(gen[c], fa[c], FsData)
       IN  IF r.exc # ""
           THEN /\ result' = [result EXCEPT ![c] = Raise(r.exc, r.msg)]
                /\ pc' = [pc EXCEPT ![c] = "done"]
                /\ dims' = dims
           ELSE /\ dims' = [dims EXCEPT ![c] = r.d]
                /\ pc' = [pc EXCEPT ![c] = "profile"]
                /\ result' = result
    /\ UNCHANGED <<fa, gen, FsData, aliasVars, bomVars>>

ResolveDims_consuming(c) ==
    /\ pc[c] = "dims"
    /\ LET r == GenDims(gen[c], fa[c], FsData)
       IN  IF r.exc # ""
           THEN /\ result' = [result EXCEPT ![c] = Raise(r.exc, r.msg)]
                /\ pc' = [pc EXCEPT ![c] = "done"]
                /\ dims' = dims
                /\ FsData' = FsData
           ELSE /\ dims' = [dims EXCEPT ![c] = r.d]
                /\ pc' = [pc EXCEPT ![c] = "profile"]
                /\ result' = result
                /\ FsData' = [t \in DOMAIN FsData |->
                                [k \in DOMAIN FsData[t] \ {fa[c].calc_diam}
                                    |-> FsData[t][k]]]
    /\ UNCHANGED <<fa, gen, ops, aliasVars, bomVars>>

\* the statements of a generator before it constructs the face maker
ResolveDims(c) ==
    /\ pc[c] = "dims"
    /\ LET r == GenDims(gen[c], fa[c], FsData)
       IN  IF r.exc # ""
           THEN /\ result' = [result EXCEPT ![c] = Raise(r.exc, r.msg)]
                /\ pc' = [pc EXCEPT ![c] = "done"]
                /\ dims' = dims
           ELSE /\ dims' = [dims EXCEPT ![c] = r.d]
                /\ pc' = [pc EXCEPT ![c] = "profile"]
                /\ result' = result
    /\ UNCHANGED <<fa, gen, ops, FsData, aliasVars, bomVars>>

\* fm = FastenerBase.FSFaceMaker() and the segments added to it
BuildProfile(c) ==
    /\ pc[c] = "profile"
    /\ ops' = [ops EXCEPT ![c] = @ \o GenProfile(gen[c], fa[c], dims[c])]
    /\ pc' = [pc EXCEPT ![c] = "revolve"]
    /\ UNCHANGED <<fa, gen, dims, result, FsData, aliasVars, bomVars>>

\* self.RevolveZ(fm.GetFace()); the pins without holes return here
RevolveProfile(c) ==
    /\ pc[c] = "revolve"
    /\ ops' = [ops EXCEPT ![c] =
                @ \o <<Op("GetFace", <<>>), Op("RevolveZ", <<>>)>>]
    /\ IF gen[c] \in {"makeDowelPin", "makeTaperPin"}
       THEN /\ pc' = [pc EXCEPT ![c] = "done"]
            /\ result' = [result EXCEPT ![c] = Solid]
       ELSE /\ pc' = [pc EXCEPT ![c] =
                        IF gen[c] = "makeISO7049" THEN "recess" ELSE "holes"]
            /\ result' = result
    /\ UNCHANGED <<fa, gen, dims, FsData, aliasVars, bomVars>>

CutRecess_unthreadedOnly(c) ==
    /\ pc[c] = "recess"
    /\ IF fa[c].thread
       THEN /\ pc' = [pc EXCEPT ![c] = "thread"]
            /\ result' = result
            /\ ops' = ops
       ELSE /\ pc' = [pc EXCEPT ![c] = "done"]
            /\ result' = [result EXCEPT ![c] = Solid]
            /\ ops' = [ops EXCEPT ![c] = @ \o makeISO7049_recess(dims[c])]
    /\ UNCHANGED <<fa, gen, dims, FsData, aliasVars, bomVars>>

\* the clevis pins: makeTraversalHoles where it applies, then return clevis
CutHoles(c) ==
    /\ pc[c] = "holes"
    /\ ops' = [ops EXCEPT ![c] = @ \o
                (IF gen[c] = "makeClevisPinWithoutHead"
                 THEN makeClevisPinWithoutHead_holes(dims[c])
                 ELSE makeClevisPinWithHead_holes(fa[c], dims[c]))]
    /\ pc' = [pc EXCEPT ![c] = "done"]
    /\ result' = [result EXCEPT ![c] = Solid]
    /\ UNCHANGED <<fa, gen, dims, FsData, aliasVars, bomVars>>

\* makeISO7049: the cross recess is cut; without a thread the screw returns
CutRecess(c) ==
    /\ pc[c] = "recess"
    /\ ops' = [ops EXCEPT ![c] = @ \o makeISO7049_recess(dims[c])]
    /\ IF fa[c].thread
       THEN /\ pc' = [pc EXCEPT ![c] = "thread"]
            /\ result' = result
       ELSE /\ pc' = [pc EXCEPT ![c] = "done"]
            /\ result' = [result EXCEPT ![c] = Solid]
    /\ UNCHANGED <<fa, gen, dims, FsData, aliasVars, bomVars>>

\* makeISO7049: if fa.thread: thread = ...; screw = screw.fuse(thread).
\* When no variant assigned thread, reading it raises UnboundLocalError.
FuseThread(c) ==
    /\ pc[c] = "thread"
    /\ LET t == makeISO7049_thread(dims[c])
       IN  IF Len(t) = 0
           THEN /\ result' = [result EXCEPT ![c] =
                        Raise("UnboundLocalError", "thread")]
                /\ ops' = ops
           ELSE /\ ops' = [ops EXCEPT ![c] = @ \o t \o <<Op("fuse", <<>>)>>]
                /\ result' = [result EXCEPT ![c] = Solid]
    /\ pc' = [pc EXCEPT ![c] = "done"]
    /\ UNCHANGED <<fa, gen, dims, FsData, aliasVars, bomVars>>

Step(c) ==
    \/ CallMakePin(c)
    \/ CallMakeSelfTappingScrew(c)
    \/ ResolveDims(c)
    \/ BuildProfile(c)
    \/ RevolveProfile(c)
    \/ CutHoles(c)
    \/ CutRecess(c)
    \/ FuseThread(c)

---------------------------------------------------------------------------
(* FSAliases.py                                                            *)

FSGetIconAlias(name) ==
    IF DictHas(FSIconAliases, name) THEN DictGet(FSIconAliases, name)
    ELSE name

FSGetTypeAlias(type) ==
    IF DictHas(FSTypeAliases, type) THEN DictGet(FSTypeAliases, type)
    ELSE type

\* table[k] = v
SetItem(t, k, v) == (k :> v) @@ t

RECURSIVE AppendReversedFrom(_, _)
AppendReversedFrom(t, items) ==
    IF Len(items) = 0 THEN [exc |-> "", table |-> t]
    ELSE IF items[1] \notin DOMAIN t
    THEN [exc |-> "KeyError", table |-> t]
    ELSE AppendReversedFrom(
            SetItem(t, DictGet(FSTypeAliases, items[1]), t[items[1]]),
            Tail(items))

FSAppendAliasesToTable_reversed(t) ==
    AppendReversedFrom(t, DictKeys(FSTypeAliases))

RECURSIVE AppendSkippingFrom(_, _)
AppendSkippingFrom(t, items) ==
    IF Len(items) = 0 THEN [exc |-> "", table |-> t]
    ELSE IF DictGet(FSTypeAliases, items[1]) \notin DOMAIN t
    THEN AppendSkippingFrom(t, Tail(items))
    ELSE AppendSkippingFrom(
            SetItem(t, items[1], t[DictGet(FSTypeAliases, items[1])]),
            Tail(items))

AppendFrom_skipping(t, items) == AppendSkippingFrom(t, items)

\* for item in <items>: table[item] = table[FSTypeAliases[item]]
RECURSIVE AppendFrom(_, _)
AppendFrom(t, items) ==
    IF Len(items) = 0 THEN [exc |-> "", table |-> t]
    ELSE IF DictGet(FSTypeAliases, items[1]) \notin DOMAIN t
    THEN [exc |-> "KeyError", table |-> t]
    ELSE AppendFrom(
            SetItem(t, items[1], t[DictGet(FSTypeAliases, items[1])]),
            Tail(items))

\* FSAppendAliasesToTable(table): the table it leaves and what it raised
FSAppendAliasesToTable(t) == AppendFrom(t, DictKeys(FSTypeAliases))

\* the names handed to the alias functions
AliasNames ==
    {"ISO299", "DIN508", "GN505", "ISO7049-C", "ISO7049-R", "GOST1144-4",
     "ISO4032"}

\* the keys a table handed to FSAppendAliasesToTable may hold
TableKeys == {"ISO299", "DIN508", "GN505", "ISO4032"}

Tables ==
    UNION {[ks -> 1..MaxTableValue] : ks \in SUBSET TableKeys}

NoAliasCall ==
    [op |-> "none", arg |-> "", res |-> "", again |-> FALSE, res2 |-> "",
     exc |-> ""]

\* FSGetTypeAlias(x)
CallGetTypeAlias(x) ==
    /\ aliasCall.op = "none"
    /\ aliasCall' = [NoAliasCall EXCEPT !.op = "FSGetTypeAlias", !.arg = x,
                                        !.res = FSGetTypeAlias(x)]
    /\ UNCHANGED <<table, tableBefore, genVars, bomVars>>

\* FSGetIconAlias(x)
CallGetIconAlias(x) ==
    /\ aliasCall.op = "none"
    /\ aliasCall' = [NoAliasCall EXCEPT !.op = "FSGetIconAlias", !.arg = x,
                                        !.res = FSGetIconAlias(x)]
    /\ UNCHANGED <<table, tableBefore, genVars, bomVars>>

\* the caller resolves the name it was given once more
ResolveAgain ==
    /\ aliasCall.op \in {"FSGetTypeAlias", "FSGetIconAlias"}
    /\ ~aliasCall.again
    /\ aliasCall' = [aliasCall EXCEPT
            !.again = TRUE,
            !.res2 = IF aliasCall.op = "FSGetTypeAlias"
                     THEN FSGetTypeAlias(aliasCall.res)
                     ELSE FSGetIconAlias(aliasCall.res)]
    /\ UNCHANGED <<table, tableBefore, genVars, bomVars>>

\* FSAppendAliasesToTable(table)
CallAppendAliasesToTable ==
    /\ aliasCall.op = "none"
    /\ LET r == FSAppendAliasesToTable(table)
       IN  /\ table' = r.table
           /\ aliasCall' = [NoAliasCall EXCEPT
                                !.op = "FSAppendAliasesToTable",
                                !.exc = r.exc]
    /\ tableBefore' = table
    /\ UNCHANGED <<genVars, bomVars>>

---------------------------------------------------------------------------
(* FastenersBillOfMaterials.py: designation keys.                          *)

\* s.startswith(p)
StartsWith(s, p) == Len(s) >= Len(p) /\ SubSeq(s, 1, Len(p)) = p

\* round(q.getValueAs("mm"), 2) of a length q in thousandths of a
\* millimetre, in hundredths. The lengths of the model are never halfway
\* between two hundredths.
round_mm(q) == (q + 5) \div 10

\* round(q.getValueAs("in"), 3), in thousandths of an inch; 25.4 mm to the
\* inch, so no length in thousandths of a millimetre is halfway
round_in(q) == (10 * q + 127) \div 254

\* str(x) of the float n / 10^places: at least one fraction digit, no
\* trailing zeros beyond it
str_float(n, places) ==
    LET unit == IF places = 2 THEN 100 ELSE 1000
        digits == ToString(unit + (n % unit))
        frac == RStrip(SubSeq(digits, 2, Len(digits)), {"0"})
    IN  ToString(n \div unit) \o "." \o (IF frac = "" THEN "0" ELSE frac)

nice_custom_length_metric(baseType, lengthCustom) ==
    str_float(round_mm(lengthCustom), 2)

\* nice_custom_length of an object whose length is "Custom"
nice_custom_length(baseType, lengthCustom) ==
    IF StartsWith(baseType, "ASME") \/ StartsWith(baseType, "SAE")
    THEN str_float(round_in(lengthCustom), 3) \o "in"
    ELSE str_float(round_mm(lengthCustom), 2)

\* hasattr(obj, name)
hasattr(obj, name) == name \in obj.attrs

\* the copy of obj.Proxy.__dict__ after the substitutions for custom
\* lengths and threaded rods
SubstitutedAttributes(obj) ==
    LET copy == obj.Proxy
        baseType == obj.Proxy.baseType
    IN  IF hasattr(obj, "lengthCustom") /\ obj.length = "Custom"
        THEN SetItem(copy, "length",
                     nice_custom_length(baseType, obj.lengthCustom))
        ELSE IF baseType = "ThreadedRod"
        THEN LET dia_str == IF obj.diameter # "Custom" THEN obj.diameter
                            ELSE "M" \o str_float(round_mm(obj.diameterCustom), 2)
                 len_str == str_float(round_mm(obj.lengthValue), 2)
             IN  SetItem(SetItem(copy, "length", len_str), "diameter", dia_str)
        ELSE IF baseType = "ThreadedRodInch"
        THEN LET dia_str == IF obj.diameter # "Custom" THEN obj.diameter
                            ELSE str_float(round_in(obj.diameterCustom), 3) \o "in"
                 len_str == str_float(round_in(obj.lengthValue), 3) \o "in"
             IN  SetItem(SetItem(copy, "length", len_str), "diameter", dia_str)
        ELSE copy

\* index of the first ch in s at or after i, 0 when there is none
RECURSIVE IndexOf(_, _, _)
IndexOf(s, ch, i) ==
    IF i > Len(s) THEN 0
    ELSE IF CharAt(s, i) = ch THEN i
    ELSE IndexOf(s, ch, i + 1)

\* template.format(**d): every {name} replaced by d[name]
RECURSIVE format(_, _)
format(template, d) ==
    LET i == IndexOf(template, "{", 1)
        j == IndexOf(template, "}", i + 1)
        name == SubSeq(template, i + 1, j - 1)
        rest == format(SubSeq(template, j + 1, Len(template)), d)
    IN  IF i = 0 THEN [exc |-> "", s |-> template]
        ELSE IF j = 0 THEN [exc |-> "ValueError", s |-> ""]
        ELSE IF name \notin DOMAIN d THEN [exc |-> "KeyError", s |-> ""]
        ELSE IF rest.exc # "" THEN rest
        ELSE [exc |-> "", s |-> SubSeq(template, 1, i - 1) \o d[name] \o rest.s]

LookupDesignation_default(baseType) ==
    IF baseType \in DOMAIN fastener_designations
    THEN [exc |-> "", template |-> fastener_designations[baseType]]
    ELSE [exc |-> "", template |-> baseType]

\* fastener_designations[baseType]
LookupDesignation(baseType) ==
    IF baseType \in DOMAIN fastener_designations
    THEN [exc |-> "", template |-> fastener_designations[baseType]]
    ELSE [exc |-> "KeyError", template |-> ""]

LeftHandedSuffix_anyValue(obj) ==
    IF hasattr(obj, "leftHanded") THEN " - LH" ELSE ""

\* what is appended to the key: " - LH" for a left-handed object
LeftHandedSuffix(obj) ==
    IF hasattr(obj, "leftHanded") /\ obj.leftHanded THEN " - LH" ELSE ""

\* one iteration of the counting loop up to the key of the object
DesignationKey(obj) ==
    LET attributes == SubstitutedAttributes(obj)
        t == LookupDesignation(obj.Proxy.baseType)
        f == format(t.template, attributes)
    IN  IF t.exc # "" THEN [exc |-> t.exc, key |-> "", attributes |-> attributes]
        ELSE IF f.exc # "" THEN [exc |-> f.exc, key |-> "", attributes |-> attributes]
        ELSE [exc |-> "", key |-> f.s \o LeftHandedSuffix(obj),
              attributes |-> attributes]

\* GetTotalObjectRepeats(obj): how many times the object is instantiated
GetTotalObjectRepeats(obj) == obj.repeats

AddCount_overwrite(items, key, count) == SetItem(items, key, count)

\* bom_items[key] += count, on a defaultdict(int)
AddCount(items, key, count) ==
    SetItem(items, key,
            (IF key \in DOMAIN items THEN items[key] ELSE 0) + count)

---------------------------------------------------------------------------
(* FastenersBillOfMaterials.py: sorted(bom_items.keys()).                  *)

\* runs of printable characters in code point order, each with the code
\* point before its first character; the double quote, the apostrophe, the
\* backslash and the grave accent are left out: no designation holds them
AsciiRuns ==
    << <<31, " !">>,
       <<34, "#$%&">>,
       <<39, "()*+,-./0123456789:;<=>?@ABCDEFGHIJKLMNOPQRSTUVWXYZ[">>,
       <<92, "]^_">>,
       <<96, "abcdefghijklmnopqrstuvwxyz{|}~">> >>

\* ord(ch)
ord(ch) ==
    LET r == CHOOSE k \in 1..Len(AsciiRuns) : IndexOf(AsciiRuns[k][2], ch, 1) > 0
    IN  AsciiRuns[r][1] + IndexOf(AsciiRuns[r][2], ch, 1)

\* a < b on str: by code point, a proper prefix first
RECURSIVE StrLess(_, _)
StrLess(a, b) ==
    IF Len(b) = 0 THEN FALSE
    ELSE IF Len(a) = 0 THEN TRUE
    ELSE IF CharAt(a, 1) # CharAt(b, 1)
    THEN ord(CharAt(a, 1)) < ord(CharAt(b, 1))
    ELSE StrLess(SubSeq(a, 2, Len(a)), SubSeq(b, 2, Len(b)))

\* sorted(S) of a set of strings
RECURSIVE sorted(_)
sorted(S) ==
    IF S = {} THEN <<>>
    ELSE LET least == CHOOSE x \in S : \A y \in S \ {x} : StrLess(x, y)
         IN  <<least>> \o sorted(S \ {least})

---------------------------------------------------------------------------
(* FastenersBillOfMaterials.py: the objects of a document.                 *)

\* An object of the document: its type, whether it has a Proxy that is an
\* FSScrewObject, the attributes of the Proxy, the names of the properties
\* the object has, and their values (lengths in thousandths of a
\* millimetre; lengthValue is obj.length where that is a quantity).
DocumentObject(TypeId, isFSScrewObject, baseType, diameter, length, attrs, lengthCustom, lengthValue, diameterCustom, leftHanded, repeats) ==
    [TypeId |-> TypeId, isFSScrewObject |-> isFSScrewObject,
     Proxy |-> [baseType |-> baseType, diameter |-> diameter, length |-> length],
     attrs |-> attrs, length |-> length, diameter |-> diameter,
     lengthCustom |-> lengthCustom, lengthValue |-> lengthValue,
     diameterCustom |-> diameterCustom, leftHanded |-> leftHanded,
     repeats |-> repeats]

\* a screw or a pin with a length taken from the list of its standard
Screw(baseType, diameter, length, attrs, leftHanded, repeats) ==
    DocumentObject("Part::FeaturePython", TRUE, baseType, diameter, length,
                   {"diameter", "length", "lengthCustom"} \cup attrs,
                   0, 0, 0, leftHanded, repeats)

\* a screw whose length is "Custom"
CustomScrew(baseType, diameter, lengthCustom, leftHanded) ==
    DocumentObject("Part::FeaturePython", TRUE, baseType, diameter, "Custom",
                   {"diameter", "length", "lengthCustom", "leftHanded"},
                   lengthCustom, 0, 0, leftHanded, 1)

\* a threaded rod: its length is a quantity
Rod(baseType, diameter, diameterCustom, lengthValue) ==
    DocumentObject("Part::FeaturePython", TRUE, baseType, diameter, "",
                   {"diameter", "diameterCustom", "length", "leftHanded"},
                   0, lengthValue, diameterCustom, FALSE, 1)

\* a nut: no length
Nut(baseType, diameter) ==
    DocumentObject("Part::FeaturePython", TRUE, baseType, diameter, "",
                   {"diameter"}, 0, 0, 0, FALSE, 1)

\* an object that is no fastener
Feature(TypeId) ==
    DocumentObject(TypeId, FALSE, "", "", "", {}, 0, 0, 0, FALSE, 1)

DocumentObjects ==
    {Screw("ISO4017", "M6", "20", {"leftHanded"}, lh, r) :
        lh \in BOOLEAN, r \in 1..MaxRepeats}
    \cup {CustomScrew("ISO4017", "M6", 12340, FALSE),
          CustomScrew("ISO4017", "M6", 12346, TRUE),
          Screw("ASMEB18.2.1.6", "1/4in", "1in", {"leftHanded"}, FALSE, 1),
          CustomScrew("ASMEB18.2.1.6", "1/4in", 12700, FALSE),
          CustomScrew("ASMEB18.2.1.6", "1/4in", 10000, FALSE),
          Screw("ISO2338", "3 mm", "20", {}, FALSE, 1),
          Screw("ISO2340", "3 mm", "20", {}, FALSE, 1),
          Rod("ThreadedRod", "M6", 0, 100000),
          Rod("ThreadedRod", "Custom", 6500, 99996),
          Rod("ThreadedRodInch", "Custom", 6350, 25400),
          Nut("SAEJ483a1", "1/4in"),
          Feature("Part::Feature")}

Documents == UNION {[1..n -> DocumentObjects] : n \in 0..MaxObjects}

---------------------------------------------------------------------------
(* FastenersBillOfMaterials.py: FSMakeBomCommand.Activated.                *)

\* the object doc.addObject("Spreadsheet::Sheet", "Fasteners_BOM") adds
SheetObject == Feature("Spreadsheet::Sheet")

\* [x for x in doc.Objects if hasattr(x, "Proxy") and
\*  isinstance(x.Proxy, FSScrewObject)]
fastener_objects_in_document == SelectSeq(doc, LAMBDA x : x.isFSScrewObject)

\* the cell of column col on line n
Cell(col, n) == col \o ToString(n)

\* Activated up to the counting loop: the sheet is added to the document
\* and its header line is written
Activated ==
    /\ bomPc = "start"
    /\ doc' = Append(doc, SheetObject)
    /\ sheet' = SetItem(SetItem(sheet, "A1", "Type"), "B1", "Qty")
    /\ bomPc' = "loop"
    /\ UNCHANGED <<idx, fastener_attributes, keys, bom_items, pending, line,
                   bomExc, genVars, aliasVars>>

\* one iteration of the counting loop
CountFastener ==
    /\ bomPc = "loop"
    /\ idx < Len(fastener_objects_in_document)
    /\ LET obj == fastener_objects_in_document[idx + 1]
           r == DesignationKey(obj)
       IN  /\ fastener_attributes' = r.attributes
           /\ IF r.exc # ""
              THEN /\ bomExc' = r.exc
                   /\ bomPc' = "failed"
                   /\ UNCHANGED <<idx, keys, bom_items>>
              ELSE /\ idx' = idx + 1
                   /\ keys' = Append(keys, r.key)
                   /\ bom_items' = AddCount(bom_items, r.key,
                                            GetTotalObjectRepeats(obj))
                   /\ UNCHANGED <<bomPc, bomExc>>
    /\ UNCHANGED <<doc, pending, line, sheet, genVars, aliasVars>>

\* line = 2 and the evaluation of sorted(bom_items.keys())
SortKeys ==
    /\ bomPc = "loop"
    /\ idx = Len(fastener_objects_in_document)
    /\ line' = 2
    /\ pending' = sorted(DOMAIN bom_items)
    /\ bomPc' = "rows"
    /\ UNCHANGED <<doc, idx, fastener_attributes, keys, bom_items, sheet,
                   bomExc, genVars, aliasVars>>

\* one iteration of the loop that writes the rows
WriteRow ==
    /\ bomPc = "rows"
    /\ pending # <<>>
    /\ LET fastener == Head(pending)
       IN  sheet' = SetItem(SetItem(sheet, Cell("A", line), fastener),
                            Cell("B", line), ToString(bom_items[fastener]))
    /\ line' = line + 1
    /\ pending' = Tail(pending)
    /\ UNCHANGED <<doc, bomPc, idx, fastener_attributes, keys, bom_items,
                   bomExc, genVars, aliasVars>>

\* doc.recompute() and the return
Recompute ==
    /\ bomPc = "rows"
    /\ pending = <<>>
    /\ bomPc' = "done"
    /\ UNCHANGED <<doc, idx, fastener_attributes, keys, bom_items, pending,
                   line, sheet, bomExc, genVars, aliasVars>>

---------------------------------------------------------------------------
(* Specifications.                                                         *)

AliasIdle ==
    /\ table = <<>>
    /\ tableBefore = <<>>
    /\ aliasCall = NoAliasCall

GenIdle ==
    /\ fa = [c \in Calls |-> CHOOSE f \in Descriptors : TRUE]
    /\ pc = [c \in Calls |-> "idle"]
    /\ gen = [c \in Calls |-> "none"]
    /\ dims = [c \in Calls |-> NoDims]
    /\ ops = [c \in Calls |-> <<>>]
    /\ result = [c \in Calls |-> NoResult]
    /\ FsData = FsDataInit

BomIdle ==
    /\ doc = <<>>
    /\ bomPc = "idle"
    /\ idx = 0
    /\ fastener_attributes = <<>>
    /\ keys = <<>>
    /\ bom_items = <<>>
    /\ pending = <<>>
    /\ line = 0
    /\ sheet = <<>>
    /\ bomExc = ""

\* one generation call, call "a", with any descriptor; "b" never starts
Init ==
    /\ \E f \in Descriptors : fa = [c \in Calls |-> f]
    /\ pc = [c \in Calls |-> IF c = "a" THEN "call" ELSE "idle"]
    /\ gen = [c \in Calls |-> "none"]
    /\ dims = [c \in Calls |-> NoDims]
    /\ ops = [c \in Calls |-> <<>>]
    /\ result = [c \in Calls |-> NoResult]
    /\ FsData = FsDataInit
    /\ AliasIdle
    /\ BomIdle

Next == \E c \in Calls : Step(c)

Spec == Init /\ [][Next]_vars

\* two generation calls whose descriptors differ at most in the base type
InitPair ==
    /\ \E f \in Descriptors, bt \in BaseTypes :
            fa = [c \in Calls |->
                    IF c = "a" THEN f ELSE [f EXCEPT !.baseType = bt]]
    /\ pc = [c \in Calls |-> "call"]
    /\ gen = [c \in Calls |-> "none"]
    /\ dims = [c \in Calls |-> NoDims]
    /\ ops = [c \in Calls |-> <<>>]
    /\ result = [c \in Calls |-> NoResult]
    /\ FsData = FsDataInit
    /\ AliasIdle
    /\ BomIdle

SpecPair == InitPair /\ [][Next]_vars

\* the alias functions, on any name and any table
InitAlias ==
    /\ table \in Tables
    /\ tableBefore = table
    /\ aliasCall = NoAliasCall
    /\ GenIdle
    /\ BomIdle

NextAlias ==
    \/ \E x \in AliasNames : CallGetTypeAlias(x)
    \/ \E x \in AliasNames : CallGetIconAlias(x)
    \/ ResolveAgain
    \/ CallAppendAliasesToTable

SpecAlias == InitAlias /\ [][NextAlias]_vars

\* the descriptors of the first of two independent calls
FirstDescriptors ==
    {f \in Descriptors :
        /\ f.calc_diam \in {"3 mm", "ST 2.2", "ST 9.9"}
        /\ f.dimTable = FsDataInit["ISO7049def"]["ST 2.2"]}

\* the descriptors of the second of two independent calls
SecondDescriptors ==
    {f \in Descriptors :
        /\ f.calc_len = 10000
        /\ f.thread
        /\ f.dimTable = FsDataInit["ISO7049def"]["ST 2.2"]
        /\ \/ /\ f.entry = "makePin"
              /\ f.calc_diam = "3 mm"
              /\ f.baseType \in {"ISO2338", "ISO2340", "ISO2341-B"}
           \/ /\ f.entry = "makeSelfTappingScrew"
              /\ f.calc_diam = "ST 2.2"
              /\ f.baseType \in {"ISO7049-C", "ISO7049-F", "ISO7049-X"}}

\* two generation calls for independent descriptors, their steps interleaved
\* in any order, and the one-time alias propagation at any point
InitInterleave ==
    /\ \E f \in FirstDescriptors, g \in SecondDescriptors :
            fa = [c \in Calls |-> IF c = "a" THEN f ELSE g]
    /\ pc = [c \in Calls |-> "call"]
    /\ gen = [c \in Calls |-> "none"]
    /\ dims = [c \in Calls |-> NoDims]
    /\ ops = [c \in Calls |-> <<>>]
    /\ result = [c \in Calls |-> NoResult]
    /\ FsData = FsDataInit
    /\ table = ("DIN508" :> 1) @@ ("ISO4032" :> 2)
    /\ tableBefore = table
    /\ aliasCall = NoAliasCall
    /\ BomIdle

NextInterleave ==
    \/ \E c \in Calls : Step(c)
    \/ CallAppendAliasesToTable

SpecInterleave == InitInterleave /\ [][NextInterleave]_vars

\* the bill of materials command run on any document
InitBom ==
    /\ doc \in Documents
    /\ bomPc = "start"
    /\ idx = 0
    /\ fastener_attributes = <<>>
    /\ keys = <<>>
    /\ bom_items = <<>>
    /\ pending = <<>>
    /\ line = 0
    /\ sheet = <<>>
    /\ bomExc = ""
    /\ GenIdle
    /\ AliasIdle

NextBom ==
    \/ Activated
    \/ CountFastener
    \/ SortKeys
    \/ WriteRow
    \/ Recompute

SpecBom == InitBom /\ [][NextBom]_vars

---------------------------------------------------------------------------
(* Properties.                                                             *)

HasOp(log, name) == \E i \in 1..Len(log) : log[i].op = name
CountOp(log, name) == Cardinality({i \in 1..Len(log) : log[i].op = name})

\* the profile of call c is complete: GetFace has been called on it
ProfileBuilt(c) == HasOp(ops[c], "GetFace")

ISO7049Variants == {"ISO7049-C", "ISO7049-F", "ISO7049-R"}

UnhandledVariant(f) ==
    \/ /\ f.entry = "makePin"
       /\ Prefix(f.baseType, 7) = "ISO2341"
       /\ f.baseType \notin {"ISO2341-A", "ISO2341-B"}
    \/ /\ f.entry = "makeSelfTappingScrew"
       /\ Prefix(f.baseType, 7) = "ISO7049"
       /\ f.baseType \notin ISO7049Variants

\* the size key is one the generator's table holds
SizeInTable(f) ==
    IF f.entry = "makePin"
    THEN f.calc_diam \in DOMAIN FsData["ISO2341-Adef"]
    ELSE f.calc_diam \in DOMAIN FsData["iso1478def"]

\* C2: a call whose base type is recognized at the family level but whose
\* sub-variant no generator handles ends, for a size the table holds, with
\* an error that names the full base-type string, raised before any
\* geometry operation, and returns no solid.
C2_UnhandledVariantRaises ==
    \A c \in Calls :
        (pc[c] = "done" /\ UnhandledVariant(fa[c]) /\ SizeInTable(fa[c]))
        => /\ result[c] = Raise("NotImplementedError",
                                "Unknown fastener type: " \o fa[c].baseType)
           /\ ops[c] = <<>>

GeneratedBaseTypes ==
    {"ISO2338", "ISO2339", "ISO2340", "ISO2341-A", "ISO2341-B",
     "ISO7049-C", "ISO7049-F", "ISO7049-R"}

\* C3: whenever a generator has returned a solid for one of the base types
\* ISO2338, ISO2339, ISO2340, ISO2341-A, ISO2341-B, ISO7049-C, ISO7049-F,
\* ISO7049-R, that base-type string is a key of fastener_designations.
C3_GeneratedHasDesignation ==
    \A c \in Calls :
        (result[c].kind = "solid" /\ fa[c].baseType \in GeneratedBaseTypes)
        => fa[c].baseType \in DOMAIN fastener_designations

\* the generators C4 names
RevolutionGenerator(c) ==
    \/ gen[c] \in {"makeDowelPin", "makeTaperPin",
                   "makeClevisPinWithoutHead", "makeClevisPinWithHead"}
    \/ gen[c] = "makeISO7049" /\ fa[c].baseType \in ISO7049Variants

\* C4: when GetFace is called on the profile of a dowel pin, a clevis pin
\* with or without head, a taper pin or an ISO7049-C/-F/-R screw, the first
\* point added to the profile and the end point of the last segment added
\* both have r = 0.
C4_ProfileEndsOnAxis ==
    \A c \in Calls :
        (ProfileBuilt(c) /\ RevolutionGenerator(c))
        => LET segs == Segments(ops[c])
           IN  /\ Len(segs) >= 3
               /\ segs[1].op = "AddPoint"
               /\ segs[1].a[1] = 0
               /\ LastPoint(segs)[1] = 0

\* a round-tipped screw whose profile, closed by an arc, has been finalized
C4_Witness ==
    \E c \in Calls :
        /\ ProfileBuilt(c)
        /\ fa[c].baseType = "ISO7049-R"
        /\ LET segs == Segments(ops[c])
           IN  /\ segs[Len(segs)].op = "AddArc2"
               /\ LastPoint(SubSeq(segs, 1, Len(segs) - 1))[1] > 0

\* both calls are makeISO7049 calls for a variant it handles, with finished
\* profiles, and their descriptors agree in everything but the variant
ISO7049Pair ==
    /\ \A c \in Calls :
            /\ gen[c] = "makeISO7049"
            /\ fa[c].baseType \in ISO7049Variants
            /\ ProfileBuilt(c)
    /\ fa["b"] = [fa["a"] EXCEPT !.baseType = fa["b"].baseType]

\* C5: two makeISO7049 calls with identical inputs except for the variant
\* among ISO7049-C/-F/-R add the same head and shank segments (head point,
\* head spline, first point of the rounding, the rounding under the head)
\* and then a point at the same shank radius; their profiles differ only
\* from that tip segment on.
C5_HeadShankIdentical ==
    ISO7049Pair
    => LET sa == Segments(ops["a"])
           sb == Segments(ops["b"])
       IN  /\ Len(sa) >= 5 /\ Len(sb) >= 5
           /\ SubSeq(sa, 1, 4) = SubSeq(sb, 1, 4)
           /\ sa[4].op \in {"AddBSpline", "AddArc2"}
           /\ sa[5].op = "AddPoint" /\ sb[5].op = "AddPoint"
           /\ sa[5].a[1] = sb[5].a[1]

\* a threaded conical and a threaded flat screw of the same size, whose
\* profiles do differ in the tip
C5_Witness ==
    /\ ISO7049Pair
    /\ fa["a"].baseType = "ISO7049-C"
    /\ fa["b"].baseType = "ISO7049-F"
    /\ fa["a"].thread
    /\ Segments(ops["a"]) # Segments(ops["b"])

\* the segment makeClevisPinWithHead adds after the first point of the
\* rounding under the head: the sixth segment of its profile
ClevisFillet(c) == Segments(ops[c])[6]

\* C6 as stated: in the clevis-pin-with-head generator the fillet under the
\* head is a spline segment when the shaft is threaded and a circular arc
\* segment otherwise.
C6_FilletKindFollowsThread ==
    \A c \in Calls :
        (gen[c] = "makeClevisPinWithHead" /\ ProfileBuilt(c))
        => ClevisFillet(c).op =
                (IF fa[c].thread THEN "AddBSpline" ELSE "AddArc2")

\* C6 as amended: in the clevis-pin-with-head generator the fillet under
\* the head is a spline segment whatever the threaded flag is; its profile
\* holds no arc segment.
C6_FilletAlwaysSpline ==
    \A c \in Calls :
        (gen[c] = "makeClevisPinWithHead" /\ ProfileBuilt(c))
        => /\ ClevisFillet(c).op = "AddBSpline"
           /\ ~HasOp(ops[c], "AddArc2")

\* an unthreaded clevis pin with head whose profile has been finalized
C6_Witness ==
    \E c \in Calls :
        /\ gen[c] = "makeClevisPinWithHead"
        /\ ProfileBuilt(c)
        /\ ~fa[c].thread
        /\ ClevisFillet(c).op = "AddBSpline"

\* C7: a makeISO7049 call that has built its solid and ended has invoked
\* makeDin7998Thread and fused its result exactly once when fa.thread is
\* true and never when it is false, and every invocation passes
\* omitTipThread = TRUE exactly when the variant is ISO7049-F.
C7_ThreadOncePerFlag ==
    \A c \in Calls :
        (gen[c] = "makeISO7049" /\ pc[c] = "done" /\ ProfileBuilt(c))
        => LET n == IF fa[c].thread THEN 1 ELSE 0
           IN  /\ CountOp(ops[c], "makeDin7998Thread") = n
               /\ CountOp(ops[c], "fuse") = n
               /\ \A i \in 1..Len(ops[c]) :
                    ops[c][i].op = "makeDin7998Thread"
                    => (ops[c][i].a[7] = (fa[c].baseType = "ISO7049-F"))

\* the operations of makeTraversalHoles in a log
IsHoleOp(o) == o.op \in {"makeCylinder", "Placement", "cut"}
HoleOps(log) == SelectSeq(log, IsHoleOp)

\* the offsets C8 names, from the descriptor and the table
ExpectedOffsets(f) ==
    CASE f.baseType = "ISO2340" ->
            << 0 - FsData["ISO2340def"][f.calc_diam][3],
               0 - f.calc_len + FsData["ISO2340def"][f.calc_diam][3] >>
      [] f.baseType = "ISO2341-B" ->
            << 0 - f.calc_len + FsData["ISO2341-Adef"][f.calc_diam][6] >>
      [] OTHER -> <<>>

C9_AliasIdempotent ==
    (aliasCall.op \in {"FSGetTypeAlias", "FSGetIconAlias"} /\ aliasCall.again)
    => aliasCall.res2 = aliasCall.res

\* an aliased name, resolved twice
C9_Witness ==
    /\ aliasCall.op = "FSGetTypeAlias"
    /\ aliasCall.arg = "ISO299"
    /\ aliasCall.again
    /\ aliasCall.res = "DIN508"
    /\ aliasCall.res2 = "DIN508"

AliasKeys == {FSTypeAliases[i][1] : i \in 1..Len(FSTypeAliases)}

\* C10: after FSAppendAliasesToTable(table) has returned, table[a] equals
\* table[FSTypeAliases[a]] for every alias key a, and every key of the table
\* that is not an alias key was a key before the call, with the same value.
C10_AppendCopiesAndFrames ==
    (aliasCall.op = "FSAppendAliasesToTable" /\ aliasCall.exc = "")
    => /\ \A a \in AliasKeys :
            /\ a \in DOMAIN table
            /\ DictGet(FSTypeAliases, a) \in DOMAIN table
            /\ table[a] = table[DictGet(FSTypeAliases, a)]
       /\ \A k \in DOMAIN table \ AliasKeys :
            k \in DOMAIN tableBefore /\ table[k] = tableBefore[k]
       /\ \A k \in DOMAIN tableBefore \ AliasKeys : k \in DOMAIN table

\* a call that overwrote an alias entry holding another value, in a table
\* with an unrelated key
C10_Witness ==
    /\ aliasCall.op = "FSAppendAliasesToTable"
    /\ aliasCall.exc = ""
    /\ "ISO299" \in DOMAIN tableBefore
    /\ "ISO4032" \in DOMAIN tableBefore
    /\ tableBefore["ISO299"] # tableBefore["DIN508"]
    /\ table["ISO299"] = tableBefore["DIN508"]

\* C11: when the canonical key of some alias is absent from the table
\* handed to FSAppendAliasesToTable, the call ends in a KeyError; the alias is
\* not skipped silently and no entry is inserted for the missing key: the
\* table is left as it was.
C11_MissingCanonicalRaises ==
    (/\ aliasCall.op = "FSAppendAliasesToTable"
     /\ \E a \in AliasKeys :
            DictGet(FSTypeAliases, a) \notin DOMAIN tableBefore)
    => /\ aliasCall.exc = "KeyError"
       /\ table = tableBefore

\* a call on a table that holds the alias key but not its canonical key
C11_Witness ==
    /\ aliasCall.op = "FSAppendAliasesToTable"
    /\ "ISO299" \in DOMAIN tableBefore
    /\ "DIN508" \notin DOMAIN tableBefore
    /\ aliasCall.exc = "KeyError"

\* the operations a call with descriptor f performs when it runs alone,
\* from its first statement to its return or its exception
SoloOps(f) ==
    LET g == IF f.entry = "makePin" THEN makePin(f.baseType)
             ELSE makeSelfTappingScrew(f.baseType)
    IN  IF g = "NotImplementedError" THEN <<>>
        ELSE LET r == GenDims(g, f, FsDataInit)
             IN  IF r.exc # "" THEN <<>>
                 ELSE GenProfile(g, f, r.d)
                      \o <<Op("GetFace", <<>>), Op("RevolveZ", <<>>)>>
                      \o (CASE g = "makeClevisPinWithoutHead" ->
                                    makeClevisPinWithoutHead_holes(r.d)
                            [] g = "makeClevisPinWithHead" ->
                                    makeClevisPinWithHead_holes(f, r.d)
                            [] g = "makeISO7049" ->
                                    makeISO7049_recess(r.d)
                                    \o (IF f.thread /\ Len(makeISO7049_thread(r.d)) > 0
                                        THEN makeISO7049_thread(r.d)
                                             \o <<Op("fuse", <<>>)>>
                                        ELSE <<>>)
                            [] OTHER -> <<>>)

\* C12: no step of a generation call changes the dimension tables FsData or
\* a descriptor fa; the table handed to FSAppendAliasesToTable changes only
\* by that call; and in any interleaving of two generation calls for
\* independent descriptors, each call that ends has performed the sequence
\* of geometry operations it performs when run alone.
C12_CallsIndependent ==
    [][/\ FsData' = FsData
       /\ fa' = fa
       /\ (table' # table => aliasCall'.op = "FSAppendAliasesToTable")
       /\ \A c \in Calls :
            pc'[c] = "done" => ops'[c] = SoloOps(fa'[c])]_vars

\* both calls have ended with a solid, the second having started its
\* geometry before the first had finished its own
C12_Witness ==
    /\ \A c \in Calls : pc[c] = "done" /\ result[c].kind = "solid"
    /\ fa["a"].baseType = "ISO2340"
    /\ fa["b"].baseType = "ISO7049-F"
    /\ table # tableBefore

\* the object the counting loop handled last
LastHandled ==
    IF bomPc = "failed" THEN fastener_objects_in_document[idx + 1]
    ELSE fastener_objects_in_document[idx]

IsLeftHanded(obj) == hasattr(obj, "leftHanded") /\ obj.leftHanded

\* C13: the key counted for an object is its formatted designation
\* template, followed by " - LH" once when the object is left-handed and by
\* nothing otherwise; and no step of the command changes an attribute of
\* the Proxy of an object of the document.
C13_LeftHandedSuffixOnce ==
    [][/\ \A i \in 1..Len(doc) : doc'[i].Proxy = doc[i].Proxy
       /\ (bomPc = "loop" /\ idx' = idx + 1) =>
            LET obj == fastener_objects_in_document[idx']
                base == format(fastener_designations[obj.Proxy.baseType],
                               fastener_attributes').s
            IN  keys'[idx'] = IF IsLeftHanded(obj) THEN base \o " - LH"
                              ELSE base]_vars

\* a finished run that counted a left-handed screw of custom length, whose
\* Proxy still says "Custom"
C13_Witness ==
    /\ bomPc = "done"
    /\ \E i \in 1..Len(keys) :
        /\ keys[i] = "Hexagon head screw ISO 4017 - M6 x 12.35 - LH"
        /\ fastener_objects_in_document[i].Proxy.length = "Custom"

Contains(s, t) ==
    \E i \in 1..(Len(s) - Len(t) + 1) : SubSeq(s, i, i + Len(t) - 1) = t

\* the decimal literal s has at most n fraction digits and its value, in
\* thousandths, is within tol of want / scale
DecimalNear(s, n, want, scale, tol) ==
    /\ float(s) # ValueError
    /\ DotAt(s) > 0
    /\ Len(s) - DotAt(s) <= n
    /\ scale * float(s) - want <= tol
    /\ want - scale * float(s) <= tol

\* C14: for an object whose length is "Custom" the length substituted into
\* the designation is lengthCustom in inches to three decimals, followed by
\* "in", when the base type starts with ASME or SAE, and lengthCustom in
\* millimetres to two decimals otherwise; for any other object that is not
\* a threaded rod the length attribute of the Proxy is used as it is.
C14_CustomLengthUnits ==
    (bomPc = "failed" \/ (bomPc \in {"loop", "rows", "done"} /\ idx >= 1)) =>
        LET obj == LastHandled
            baseType == obj.Proxy.baseType
            filled == fastener_attributes["length"]
            number == SubSeq(filled, 1, Len(filled) - 2)
        IN  /\ IF obj.length = "Custom"
               THEN IF StartsWith(baseType, "ASME") \/ StartsWith(baseType, "SAE")
                    THEN /\ Len(filled) > 2
                         /\ SubSeq(filled, Len(filled) - 1, Len(filled)) = "in"
                         /\ DecimalNear(number, 3, 10 * obj.lengthCustom, 254, 127)
                    ELSE DecimalNear(filled, 2, obj.lengthCustom, 1, 5)
               ELSE baseType \notin {"ThreadedRod", "ThreadedRodInch"}
                        => filled = obj.Proxy.length
            /\ (bomPc # "failed"
                /\ Contains(fastener_designations[baseType], "{length}"))
                    => Contains(keys[idx], filled)

\* the last object counted is an inch screw of custom length 12.7 mm
C14_Witness ==
    /\ bomPc = "done"
    /\ idx >= 1
    /\ LastHandled.Proxy.baseType = "ASMEB18.2.1.6"
    /\ LastHandled.length = "Custom"
    /\ LastHandled.lengthCustom = 12700
    /\ fastener_attributes["length"] = "0.5in"

UnknownBaseType(obj) ==
    obj.isFSScrewObject /\ obj.Proxy.baseType \notin DOMAIN fastener_designations

\* C15: when the base type of some fastener object of the document is not
\* a key of fastener_designations, the command never completes: the
\* counting loop does not get past that object, the command ends with a
\* KeyError, and the sheet holds nothing but its header line.
C15_UnknownBaseTypeFails ==
    (\E i \in 1..Len(doc) : UnknownBaseType(doc[i])) =>
        /\ bomPc \in {"start", "loop", "failed"}
        /\ \A i \in 1..idx : ~UnknownBaseType(fastener_objects_in_document[i])
        /\ bomPc = "failed" => bomExc = "KeyError"
        /\ DOMAIN sheet \subseteq {"A1", "B1"}

\* a run that counted one fastener and failed on the second, a pin of base
\* type ISO2340
C15_Witness ==
    /\ bomPc = "failed"
    /\ bomExc = "KeyError"
    /\ idx = 1
    /\ fastener_objects_in_document[2].Proxy.baseType = "ISO2340"
    /\ DOMAIN sheet = {"A1", "B1"}

\* the sum of GetTotalObjectRepeats over the first n fastener objects whose
\* designation key is k
RECURSIVE TotalRepeats(_, _)
TotalRepeats(k, n) ==
    IF n = 0 THEN 0
    ELSE TotalRepeats(k, n - 1)
         + (IF keys[n] = k
            THEN GetTotalObjectRepeats(fastener_objects_in_document[n])
            ELSE 0)

\* C20: after a run that completed, the sheet holds below its header line
\* exactly one row for each distinct designation key of the fastener
\* objects; the rows are on consecutive lines from line 2 on, in ascending
\* order of the key; and the quantity of a row is the sum of
\* GetTotalObjectRepeats over the objects with that key.
C20_RowsSortedAndSummed ==
    bomPc = "done" =>
        LET designations == {keys[i] : i \in 1..Len(keys)}
            last == 1 + Cardinality(designations)
        IN  /\ Len(keys) = Len(fastener_objects_in_document)
            /\ DOMAIN sheet = {"A1", "B1"}
                    \cup {Cell("A", n) : n \in 2..last}
                    \cup {Cell("B", n) : n \in 2..last}
            /\ {sheet[Cell("A", n)] : n \in 2..last} = designations
            /\ \A n \in 2..(last - 1) :
                    StrLess(sheet[Cell("A", n)], sheet[Cell("A", n + 1)])
            /\ \A n \in 2..last :
                    sheet[Cell("B", n)] =
                        ToString(TotalRepeats(sheet[Cell("A", n)], Len(keys)))

\* a completed run over a metric screw repeated twice and an inch screw:
\* two rows, the screw counted second on the first of them
C20_Witness ==
    /\ bomPc = "done"
    /\ keys = <<"Hexagon head screw ISO 4017 - M6 x 20",
                "Hex Cap Screws, ASME B18.2.1, 1/4in x 1in">>
    /\ sheet["A2"] = keys[2]
    /\ sheet["B2"] = "1"
    /\ sheet["A3"] = keys[1]
    /\ sheet["B3"] = "2"

\* the points added to a profile
Points(log) == SelectSeq(log, LAMBDA o : o.op = "AddPoint")

\* C16: the profile of a dowel pin, built by makeCylindricBody, has exactly
\* six points; when 0 <= c <= l and 0 <= c * sin(alfa) <= dia / 2 every
\* point has its radius in [0, dia / 2] and its height in [-l, 0]; and the
\* point list read backwards is its mirror image about z = -l / 2.
C16_DowelProfileBoxAndMirror ==
    \A call \in Calls :
        (gen[call] = "makeDowelPin" /\ ProfileBuilt(call)) =>
            LET P == Points(ops[call])
                l == dims[call].l
                dia == dims[call].dia
                c == dims[call].row[1]
                inset == MulK(c, sin_deg(15))
            IN  /\ Len(P) = 6
                /\ Len(Segments(ops[call])) = 6
                /\ (0 <= c /\ c <= l /\ 0 <= inset /\ 2 * inset <= dia) =>
                        \A i \in 1..6 :
                            /\ 0 <= P[i].a[1] /\ 2 * P[i].a[1] <= dia
                            /\ 0 - l <= P[i].a[2] /\ P[i].a[2] <= 0
                /\ \A i \in 1..6 :
                        P[7 - i].a = <<P[i].a[1], 0 - l - P[i].a[2]>>

\* the dowel pin ISO2338 of 3 mm by 20 mm: its profile reaches the radius
\* 1.5 mm and the height -20 mm
C16_Witness ==
    /\ pc["a"] = "done"
    /\ gen["a"] = "makeDowelPin"
    /\ result["a"].kind = "solid"
    /\ fa["a"].baseType = "ISO2338"
    /\ fa["a"].calc_diam = "3 mm"
    /\ fa["a"].calc_len = 20000
    /\ Points(ops["a"])[4].a = <<1500, 500 - 20000>>
    /\ Points(ops["a"])[6].a = <<0, 0 - 20000>>

\* C17: the enlarged diameter D a taper pin profile is drawn with is the
\* nominal diameter times 1.02, that is 50 * D = 51 * dia, whatever the
\* length of the pin: the profile goes through the radius D / 2 at the far
\* chamfer and its closing spline starts there.
C17_TaperEnlargedDiameter ==
    \A call \in Calls :
        (gen[call] = "makeTaperPin" /\ ProfileBuilt(call)) =>
            LET far == Points(ops[call])[2]
                closing == ops[call][5]
            IN  /\ 50 * (2 * far.a[1]) = 51 * dims[call].dia
                /\ closing.op = "AddBSpline"
                /\ closing.a[1] = far.a[1]

\* a taper pin of 3 mm by 20 mm: D / 2 is 1.53 mm
C17_Witness ==
    /\ pc["a"] = "done"
    /\ gen["a"] = "makeTaperPin"
    /\ result["a"].kind = "solid"
    /\ dims["a"].dia = 3000
    /\ dims["a"].l = 20000
    /\ Points(ops["a"])[2].a[1] = 1530

\* limits of intervals as the tables give them: whole hundredths of a
\* millimetre
AverageLimits == {0, 850, 1200, 1370, 1470, 1520, 1630, 3700, 4000}

\* v is the midpoint of the interval from lo to hi
Midpoint(v, lo, hi) == lo <= v /\ v <= hi /\ 2 * v = lo + hi

\* C18: getAverage does not depend on the order of its arguments and, for
\* lo <= hi, gives the midpoint (lo + hi) / 2, which lies between lo and hi;
\* and the dimensions d2, d3, D (of dk), K (of k) and h that makeISO7049
\* works with are the midpoints of the intervals its tables give.
C18_AverageMidpoint ==
    /\ \A lo \in AverageLimits, hi \in AverageLimits :
            lo <= hi =>
                /\ getAverage(lo, hi) = getAverage(hi, lo)
                /\ Midpoint(getAverage(lo, hi), lo, hi)
    /\ \A c \in Calls :
            (gen[c] = "makeISO7049" /\ dims[c] # NoDims) =>
                LET t == FsData["iso1478def"][fa[c].calc_diam]
                    row == fa[c].dimTable
                IN  /\ Midpoint(dims[c].d2, t[5], t[4])
                    /\ Midpoint(dims[c].d3, t[7], t[6])
                    /\ Midpoint(dims[c].D, row[3], row[2])
                    /\ Midpoint(dims[c].K, row[5], row[4])
                    /\ Midpoint(dims[c].h, row[11], row[10])

\* a finished ST 2.2 screw: d2 is 1.575 mm, between 1.52 and 1.63, and the
\* recess sits at h = 1.025 mm, between 0.85 and 1.2
C18_Witness ==
    /\ pc["a"] = "done"
    /\ gen["a"] = "makeISO7049"
    /\ result["a"].kind = "solid"
    /\ fa["a"].calc_diam = "ST 2.2"
    /\ dims["a"].d2 = 1575
    /\ dims["a"].h = 1025

\* the place of an operation in the order makeISO7049 performs them
StageOf(o) ==
    CASE o.op = "FSFaceMaker" -> 0
      [] IsSegment(o) -> 1
      [] o.op = "GetFace" -> 2
      [] o.op = "RevolveZ" -> 3
      [] o.op \in {"makeHCrossRecess", "translate"} -> 4
      [] o.op = "cut" -> 5
      [] o.op = "makeDin7998Thread" -> 6
      [] o.op = "fuse" -> 7

\* C19: the operations of makeISO7049 come in one order: the segments of
\* the profile, GetFace, RevolveZ, the cut of the cross recess, the fuse of
\* the thread; none of GetFace, RevolveZ, cut and fuse happens twice and no
\* segment is added once GetFace has been called. A run that returns a
\* solid has done GetFace, RevolveZ and the cut exactly once, threaded or
\* not, and the fuse at most once, and the solid it returns is that of its
\* last operation, the fuse if there was one and the cut otherwise.
C19_KernelOrder ==
    \A c \in Calls :
        gen[c] = "makeISO7049" =>
            LET log == ops[c]
            IN  /\ \A i \in 1..Len(log), j \in 1..Len(log) :
                        i < j => StageOf(log[i]) <= StageOf(log[j])
                /\ \A name \in {"GetFace", "RevolveZ", "cut", "fuse"} :
                        CountOp(log, name) <= 1
                /\ result[c].kind = "solid" =>
                        /\ Len(Segments(log)) > 0
                        /\ CountOp(log, "GetFace") = 1
                        /\ CountOp(log, "RevolveZ") = 1
                        /\ CountOp(log, "cut") = 1
                        /\ log[Len(log)].op =
                                IF HasOp(log, "fuse") THEN "fuse" ELSE "cut"

\* a threaded screw that was returned: its recess was cut once, then its
\* thread was made and fused, and the fuse is its last operation
C19_Witness ==
    /\ pc["a"] = "done"
    /\ gen["a"] = "makeISO7049"
    /\ result["a"].kind = "solid"
    /\ fa["a"].thread
    /\ CountOp(ops["a"], "cut") = 1
    /\ ops["a"][Len(ops["a"])].op = "fuse"
    /\ ops["a"][Len(ops["a"]) - 2].op = "cut"

\* the calls of the thread synthesizer in a log
ThreadCalls(log) == SelectSeq(log, LAMBDA o : o.op = "makeDin7998Thread")

\* C21: for every threaded ISO7049 screw the axial bounds handed to
\* makeDin7998Thread, zStart, zTipStart and zEnd in that order, satisfy
\* zEnd <= zTipStart <= zStart <= 0 and zEnd >= -l: the thread neither
\* starts above the plane under the head, z = 0, nor runs past the tip.
C21_ThreadBoundsOnShaft ==
    \A c \in Calls :
        gen[c] = "makeISO7049" =>
            \A i \in 1..Len(ThreadCalls(ops[c])) :
                LET zStart == ThreadCalls(ops[c])[i].a[1]
                    zTipStart == ThreadCalls(ops[c])[i].a[2]
                    zEnd == ThreadCalls(ops[c])[i].a[3]
                IN  /\ zEnd <= zTipStart
                    /\ zTipStart <= zStart
                    /\ zStart <= 0
                    /\ zEnd >= 0 - fa[c].calc_len

=============================================================================
